---------------------------- MODULE Spec2Model ----------------------------
(***************************************************************************)
(* A model of the snd-rane-sl3 driver: the isochronous streaming engine    *)
(* (sl3_urb.c), the HID command/notification channel (sl3_hid.c), the PCM  *)
(* operations and the rate-change sequence (sl3_pcm.c).                    *)
(*                                                                         *)
(* One set of variables holds the driver's state.  Several specifications  *)
(* explore it: each starts the device in the states its operations can be  *)
(* called in and interleaves the operations it is about.                   *)
(***************************************************************************)
EXTENDS Integers, Sequences, FiniteSets, TLC

(***************************************************************************)
(* Program constants (sl3.h, sl3_urb.c).                                   *)
(***************************************************************************)
SL3_BYTES_PER_FRAME == 18
SL3_MAX_PACKET_SIZE == 126
SL3_ISO_PACKETS == 8
SL3_HID_REPORT_SIZE == 64
SL3_SAMPLES_48K == 6
SL3_SAMPLES_44K_BASE == 5
SL3_FRAC_NUM == 4100
SL3_FRAC_DENOM == 8000
SL3_HID_NOTIFY_OVERLOAD == 52
SL3_HID_NOTIFY_PHONO == 56
SL3_HID_NOTIFY_USB_PORT == 57
SL3_HID_CMD_INIT == 3
SL3_HID_CMD_SAMPLE_RATE == 49
SL3_HID_CMD_QUERY_PHONO == 50
SL3_HID_CMD_ROUTING == 51
SL3_HID_CMD_STATUS == 54
SL3_ROUTE_ANALOG == 0
SL3_ROUTE_USB == 1
SL3_URB_MAX_RETRIES == 3
SL3_INTF_AUDIO_OUT == 1
SL3_INTF_AUDIO_IN == 2
SL3_INTF_HID == 3
SL3_VENDOR_ID == 7365
SL3_PRODUCT_ID == 1
\* SL3_ISO_PACKETS * SL3_MAX_PACKET_SIZE
SL3_URB_BUFFER_SIZE == 1008
\* The largest payload of a report: SL3_HID_REPORT_SIZE - 5.
HID_PAYLOAD_MAX == 59

Rates == {44100, 48000}
PLAYBACK == "playback"
CAPTURE == "capture"
Streams == {PLAYBACK, CAPTURE}

(***************************************************************************)
(* Bounds of the model.                                                    *)
(***************************************************************************)
\* Calls of sl3_next_packet_samples followed after a reset of the accumulator.
MaxCalls == 8000
\* The longest payload handed to sl3_hid_build_report (the report holds 59).
MaxPayloadLen == 61
\* The width in bits of the model's unsigned int (the code's is 32 bits wide;
\* the model checker's integers end at 2^31 - 1).
UIntBits == 16
\* The largest host ring, in frames, of the ring-copy specification.
MaxBufFrames == 7
\* Packets copied in one run of the ring-copy specification.
MaxCopies == 2
\* Playback completions in one run of the fill specification.
MaxFills == 2
\* Completions of each stream in one run of the period specification.
MaxCompletions == 3

VARIABLES
    \* struct sl3_device: configuration and implicit feedback
    current_rate,        \* dev->current_rate
    sample_accumulator,  \* dev->sample_accumulator
    feedback_samples,    \* dev->feedback_samples
    disconnected,        \* dev->disconnected
    \* struct sl3_stream, one per direction
    running,             \* stream->running
    substream,           \* stream->substream != NULL
    hwptr,               \* stream->hwptr
    transfer_done,       \* stream->transfer_done
    urb,                 \* where each URB of stream->urbs[] is
    \* the host PCM runtime of each substream (read by the driver)
    period_size,         \* runtime->period_size (0: not configured)
    buffer_size,         \* runtime->buffer_size (0: no dma_area)
    pcm_state,           \* the host's state of the substream
    \* the buffers a completion works on
    dma_area,            \* runtime->dma_area, the host ring of each substream
    urb_buffer,          \* ctx->buffer, the transfer buffer of each stream's URB
    iso_length,          \* urb->iso_frame_desc[i].length of the playback URB
    \* HID state
    hid_in_buf,          \* dev->hid_in_buf
    hid_out_buf,         \* dev->hid_out_buf
    hid_response_buf,    \* dev->hid_response_buf
    hid_response_done,   \* dev->hid_response_complete.done
    overload_status,     \* dev->overload_status
    phono_status,        \* dev->phono_status
    usb_port_status,     \* dev->usb_port_status
    hid_in_urb,          \* where the persistent HID IN URB is
    card,                \* dev->card != NULL
    overload_ctl,        \* dev->overload_ctl != NULL
    phono_ctl,           \* dev->phono_ctl != NULL
    \* locks, and the contexts that call into the driver
    stream_mutex,        \* dev->stream_mutex: its holder, or "free"
    hid_mutex,           \* dev->hid_mutex: its holder, or "free"
    pc,                  \* where each calling context is
    local,               \* the locals of each calling context
    \* the device's side of the HID channel
    dev_queue,           \* reports the device has still to deliver
    \* struct sl3_device: the routing cache and the statistics
    routing,             \* dev->routing[3]
    play_underruns,      \* dev->play_underruns
    cap_overruns,        \* dev->cap_overruns
    \* struct sl3_urb_ctx, one per URB of each stream
    error_retries,       \* ctx->error_retries
    \* what the USB core and the sound core hold for the device
    claimed,             \* the interfaces claimed with usb_driver_claim_interface
    altsetting,          \* the alternate setting of the two streaming interfaces
    intfdata,            \* usb_get_intfdata(intf) != NULL
    dev_mem,             \* the struct sl3_device: "none", "allocated" or "freed"
    private_free,        \* card->private_free != NULL
    card_state,          \* the snd_card: "none", "new", "registered", "disconnected", "freed"
    \* observation: what the operations of a run were given and returned
    obs

cfgVars == <<current_rate, sample_accumulator, feedback_samples, disconnected>>
strVars == <<running, substream, hwptr, transfer_done, urb>>
pcmVars == <<period_size, buffer_size, pcm_state>>
bufVars == <<dma_area, urb_buffer, iso_length>>
hidVars == <<hid_in_buf, hid_out_buf, hid_response_buf, hid_response_done,
             overload_status, phono_status, usb_port_status, hid_in_urb,
             card, overload_ctl, phono_ctl>>
ctxVars == <<stream_mutex, hid_mutex, pc, local, dev_queue>>
ctlVars == <<routing>>
errVars == <<error_retries, play_underruns, cap_overruns>>
usbVars == <<claimed, altsetting, intfdata, dev_mem, private_free, card_state>>
vars == <<cfgVars, strVars, pcmVars, bufVars, hidVars, ctxVars, ctlVars, errVars, usbVars, obs>>

(***************************************************************************)
(* Helpers.                                                                *)
(***************************************************************************)
Min(a, b) == IF a < b THEN a ELSE b
\* unsigned int arithmetic wraps at UIntWrap
UIntWrap == 2 ^ UIntBits
\* Memory is a sequence of bytes: the byte at offset k is element k + 1.
Bytes(n, v) == [k \in 1..n |-> v]
At(mem, k) == mem[k + 1]
\* memcpy(dst + at, data, n): dst after the first n bytes of data were copied in
Memcpy(dst, at, data, n) ==
    SubSeq(dst, 1, at) \o SubSeq(data, 1, n) \o SubSeq(dst, at + n + 1, Len(dst))
\* the n bytes at src + at
Slice(src, at, n) == SubSeq(src, at + 1, at + n)
RECURSIVE SumSeq(_)
SumSeq(s) == IF s = <<>> THEN 0 ELSE Head(s) + SumSeq(Tail(s))

(***************************************************************************)
(* The device as probe leaves it when it is not being used: both streams   *)
(* stopped and closed, no command in progress (sl3_probe, kzalloc).        *)
(***************************************************************************)
CfgQuiet ==
    /\ current_rate = 48000
    /\ sample_accumulator = 0
    /\ feedback_samples = 0
    /\ disconnected = FALSE
StrQuiet ==
    /\ running = [s \in Streams |-> FALSE]
    /\ substream = [s \in Streams |-> FALSE]
    /\ hwptr = [s \in Streams |-> 0]
    /\ transfer_done = [s \in Streams |-> 0]
    /\ urb = [s \in Streams |-> <<>>]
PcmQuiet ==
    /\ period_size = [s \in Streams |-> 0]
    /\ buffer_size = [s \in Streams |-> 0]
    /\ pcm_state = [s \in Streams |-> "closed"]
BufQuiet ==
    /\ dma_area = [s \in Streams |-> <<>>]
    /\ urb_buffer = [s \in Streams |-> <<>>]
    /\ iso_length = <<>>
HidQuiet ==
    /\ hid_in_buf = Bytes(SL3_HID_REPORT_SIZE, 0)
    /\ hid_out_buf = Bytes(SL3_HID_REPORT_SIZE, 0)
    /\ hid_response_buf = Bytes(SL3_HID_REPORT_SIZE, 0)
    /\ hid_response_done = 0
    /\ overload_status = Bytes(6, 0)
    /\ phono_status = Bytes(3, 0)
    /\ usb_port_status = Bytes(4, 0)
    /\ hid_in_urb = "inflight"
    /\ card = TRUE /\ overload_ctl = TRUE /\ phono_ctl = TRUE
CtxQuiet ==
    /\ stream_mutex = "free"
    /\ hid_mutex = "free"
    /\ pc = <<>>
    /\ local = <<>>
    /\ dev_queue = <<>>
\* sl3_probe: every pair routed to USB, the statistics at 0
CtlQuiet == routing = [idx \in 0..2 |-> SL3_ROUTE_USB]
ErrQuiet ==
    /\ error_retries = [s \in Streams |-> <<>>]
    /\ play_underruns = 0
    /\ cap_overruns = 0
\* sl3_probe returned 0: the three interfaces claimed, the streaming
\* interfaces on alternate setting 1, the card registered
UsbBound ==
    /\ claimed = {SL3_INTF_AUDIO_OUT, SL3_INTF_AUDIO_IN, SL3_INTF_HID}
    /\ altsetting = [n \in {SL3_INTF_AUDIO_OUT, SL3_INTF_AUDIO_IN} |-> 1]
    /\ intfdata = TRUE
    /\ dev_mem = "allocated"
    /\ private_free = TRUE
    /\ card_state = "registered"
ObsNone ==
    [op |-> "none", calls |-> 0, sum |-> 0, samples |-> 0,
     cmd |-> 0, len |-> 0, payload |-> <<>>, null |-> FALSE,
     stream |-> "none", hwptr |-> 0, bytes |-> 0, offset |-> 0, ring |-> <<>>,
     feedback |-> 0, acc |-> 0, cap_running |-> FALSE,
     done |-> [s \in Streams |-> 0], signals |-> [s \in Streams |-> 0],
     total |-> [s \in Streams |-> 0], maxadv |-> [s \in Streams |-> 0],
     status |-> "none", code |-> 0, alen |-> 0, pre |-> <<>>, notified |-> {},
     cmds |-> 0, sent |-> 0, tag |-> 0, wait |-> FALSE, err |-> "none",
     stopped |-> [s \in Streams |-> FALSE], late |-> [s \in Streams |-> FALSE],
     ran |-> FALSE, puts |-> 0, put |-> <<>>, ret |-> "none", submits |-> 0, late_submit |-> FALSE,
     frees |-> 0, uaf |-> FALSE]
ObsQuiet == obs = ObsNone

(***************************************************************************)
(* sl3_next_packet_samples: the frames of the next packet and the          *)
(* accumulator after the call, as <<samples, accumulator>>.                *)
(***************************************************************************)
NextPacketSamples_gt(rate, acc) ==
    IF rate = 48000
    THEN <<SL3_SAMPLES_48K, acc>>
    ELSE IF acc + SL3_FRAC_NUM > SL3_FRAC_DENOM
         THEN <<SL3_SAMPLES_44K_BASE + 1, acc + SL3_FRAC_NUM - SL3_FRAC_DENOM>>
         ELSE <<SL3_SAMPLES_44K_BASE, acc + SL3_FRAC_NUM>>

NextPacketSamples(rate, acc) ==
    IF rate = 48000
    THEN <<SL3_SAMPLES_48K, acc>>
    ELSE IF acc + SL3_FRAC_NUM >= SL3_FRAC_DENOM
         THEN <<SL3_SAMPLES_44K_BASE + 1, acc + SL3_FRAC_NUM - SL3_FRAC_DENOM>>
         ELSE <<SL3_SAMPLES_44K_BASE, acc + SL3_FRAC_NUM>>

(***************************************************************************)
(* SpecRate: the packet-size generator alone.  The accumulator was reset   *)
(* (sl3_urb_start, sl3_set_sample_rate) at either rate, and                *)
(* sl3_next_packet_samples is called again and again.                      *)
(***************************************************************************)
RateInit ==
    /\ current_rate \in Rates
    /\ sample_accumulator = 0
    /\ feedback_samples = 0
    /\ disconnected = FALSE
    /\ StrQuiet /\ PcmQuiet /\ BufQuiet /\ HidQuiet /\ CtxQuiet /\ ObsQuiet /\ CtlQuiet /\ ErrQuiet /\ UsbBound

NextSamplesCall ==
    /\ obs.calls < MaxCalls
    /\ LET r == NextPacketSamples(current_rate, sample_accumulator) IN
        /\ sample_accumulator' = r[2]
        /\ obs' = [obs EXCEPT !.op = "next_samples", !.calls = @ + 1,
                              !.sum = @ + r[1], !.samples = r[1]]
    /\ UNCHANGED <<current_rate, feedback_samples, disconnected>>
    /\ UNCHANGED <<strVars, pcmVars, bufVars, hidVars, ctxVars>>
    /\ UNCHANGED <<ctlVars, errVars, usbVars>>

RateNext == NextSamplesCall
SpecRate == RateInit /\ [][RateNext]_vars

\* C5: after a reset, the first N results of next_samples() sum to
\* floor(N * rate / 8000); at 44100 each result is 5 or 6 and the first 8000
\* sum to 44100; at 48000 each result is 6.
C5_RatePattern ==
    obs.calls >= 1 =>
        /\ obs.sum = (obs.calls * current_rate) \div SL3_FRAC_DENOM
        /\ current_rate = 44100 => obs.samples \in {5, 6}
        /\ current_rate = 48000 => obs.samples = 6
        /\ (current_rate = 44100 /\ obs.calls = 8000) => obs.sum = 44100
C5_Witness ==
    /\ current_rate = 44100
    /\ obs.calls = 8000
    /\ obs.sum = 44100

(***************************************************************************)
(* sl3_hid_build_report: the 64 bytes of buf after the call.  A payload is *)
(* [null |-> the pointer is NULL, data |-> its bytes].                     *)
(***************************************************************************)
BuildReport_nomemset(buf, cmd, payload, payload_len) ==
    LET h == [buf EXCEPT ![1] = cmd,
                         ![2] = (SL3_VENDOR_ID \div 256) % 256,
                         ![3] = SL3_VENDOR_ID % 256,
                         ![4] = (SL3_PRODUCT_ID \div 256) % 256,
                         ![5] = SL3_PRODUCT_ID % 256]
        n == Min(payload_len, SL3_HID_REPORT_SIZE - 5)
    IN  IF ~payload.null /\ payload_len > 0
        THEN Memcpy(h, 5, payload.data, n)
        ELSE h

BuildReport(buf, cmd, payload, payload_len) ==
    LET z == Bytes(SL3_HID_REPORT_SIZE, 0)
        h == [z EXCEPT ![1] = cmd,
                       ![2] = (SL3_VENDOR_ID \div 256) % 256,
                       ![3] = SL3_VENDOR_ID % 256,
                       ![4] = (SL3_PRODUCT_ID \div 256) % 256,
                       ![5] = SL3_PRODUCT_ID % 256]
        n == Min(payload_len, SL3_HID_REPORT_SIZE - 5)
    IN  IF ~payload.null /\ payload_len > 0
        THEN Memcpy(h, 5, payload.data, n)
        ELSE h

(***************************************************************************)
(* SpecBuild: reports are built one after the other in the OUT buffer,     *)
(* which kmalloc hands out with any contents (sl3_hid_init).               *)
(***************************************************************************)
BuildCmds == {SL3_HID_CMD_INIT, SL3_HID_CMD_SAMPLE_RATE, SL3_HID_CMD_ROUTING, 255}
PayloadSeeds == {1, 200}
PayloadOf(seed, len) == [null |-> FALSE, data |-> [k \in 1..len |-> (seed + k - 1) % 256]]
NullPayload == [null |-> TRUE, data |-> <<>>]

BuildInit ==
    /\ CfgQuiet /\ StrQuiet /\ PcmQuiet /\ BufQuiet /\ CtxQuiet /\ ObsQuiet /\ CtlQuiet /\ ErrQuiet /\ UsbBound
    /\ hid_out_buf \in {Bytes(SL3_HID_REPORT_SIZE, 0), Bytes(SL3_HID_REPORT_SIZE, 170)}
    /\ hid_in_buf = Bytes(SL3_HID_REPORT_SIZE, 0)
    /\ hid_response_buf = Bytes(SL3_HID_REPORT_SIZE, 0)
    /\ hid_response_done = 0
    /\ overload_status = Bytes(6, 0)
    /\ phono_status = Bytes(3, 0)
    /\ usb_port_status = Bytes(4, 0)
    /\ hid_in_urb = "inflight"
    /\ card = TRUE /\ overload_ctl = TRUE /\ phono_ctl = TRUE

BuildReportCall ==
    /\ \E cmd \in BuildCmds, len \in 0..MaxPayloadLen, seed \in PayloadSeeds, null \in BOOLEAN :
        LET payload == IF null THEN NullPayload ELSE PayloadOf(seed, len) IN
        /\ null => len = 0
        /\ hid_out_buf' = BuildReport(hid_out_buf, cmd, payload, len)
        /\ obs' = [obs EXCEPT !.op = "build", !.cmd = cmd, !.len = len,
                              !.payload = payload.data, !.null = null]
    /\ UNCHANGED <<hid_in_buf, hid_response_buf, hid_response_done,
                   overload_status, phono_status, usb_port_status, hid_in_urb,
                   card, overload_ctl, phono_ctl>>
    /\ UNCHANGED <<cfgVars, strVars, pcmVars, bufVars, ctxVars>>
    /\ UNCHANGED <<ctlVars, errVars, usbVars>>

BuildNext == BuildReportCall
SpecBuild == BuildInit /\ [][BuildNext]_vars

\* C8: the report built for a command and a payload has byte 0 = command,
\* bytes 1..4 = 1C C5 00 01, then the payload (its first 59 bytes when it is
\* longer) and zeros in every remaining byte, whatever the buffer held before.
C8_HidFraming ==
    obs.op = "build" =>
        LET n == Min(obs.len, HID_PAYLOAD_MAX) IN
        /\ Len(hid_out_buf) = SL3_HID_REPORT_SIZE
        /\ At(hid_out_buf, 0) = obs.cmd
        /\ At(hid_out_buf, 1) = 28 /\ At(hid_out_buf, 2) = 197
        /\ At(hid_out_buf, 3) = 0 /\ At(hid_out_buf, 4) = 1
        /\ \A k \in 0..(n - 1) : At(hid_out_buf, 5 + k) = At(obs.payload, k)
        /\ \A k \in (5 + n)..(SL3_HID_REPORT_SIZE - 1) : At(hid_out_buf, k) = 0
C8_Witness ==
    /\ obs.op = "build"
    /\ obs.len = MaxPayloadLen
    /\ obs.cmd = SL3_HID_CMD_ROUTING
    /\ hid_out_buf[63] = obs.payload[58]
    /\ hid_out_buf[63] # 0

(***************************************************************************)
(* The ring copies of one packet.  A ring of buffer_size frames holds      *)
(* snd_pcm_lib_buffer_bytes = buffer_size * 18 bytes.                      *)
(***************************************************************************)
BufferBytes(buf_size) == buf_size * SL3_BYTES_PER_FRAME

\* sl3_fill_playback_urb, the copy of one packet: the bytes copied to
\* ctx->buffer + offset from the ring at hwptr.
RingRead_nowrap(ring, buf_size, hw, bytes) ==
    LET hwptr_bytes == (hw % buf_size) * SL3_BYTES_PER_FRAME
        buf_bytes == BufferBytes(buf_size)
        c1 == buf_bytes - hwptr_bytes
    IN  IF hwptr_bytes + bytes <= buf_bytes
        THEN Slice(ring, hwptr_bytes, bytes)
        ELSE Slice(ring, hwptr_bytes, c1) \o Bytes(bytes - c1, At(ring, buf_bytes - 1))

RingRead(ring, buf_size, hw, bytes) ==
    LET hwptr_bytes == (hw % buf_size) * SL3_BYTES_PER_FRAME
        buf_bytes == BufferBytes(buf_size)
        c1 == buf_bytes - hwptr_bytes
    IN  IF hwptr_bytes + bytes <= buf_bytes
        THEN Slice(ring, hwptr_bytes, bytes)
        ELSE Slice(ring, hwptr_bytes, c1) \o Slice(ring, 0, bytes - c1)

\* sl3_capture_complete, the copy of one packet: the ring after `bytes` bytes
\* of data were copied in at hwptr.
RingWrite(ring, buf_size, hw, data, bytes) ==
    LET hwptr_bytes == (hw % buf_size) * SL3_BYTES_PER_FRAME
        buf_bytes == BufferBytes(buf_size)
        c1 == buf_bytes - hwptr_bytes
    IN  IF hwptr_bytes + bytes <= buf_bytes
        THEN Memcpy(ring, hwptr_bytes, data, bytes)
        ELSE Memcpy(Memcpy(ring, hwptr_bytes, data, c1),
                    0, Slice(data, c1, bytes - c1), bytes - c1)

(***************************************************************************)
(* SpecRing: the packet loop of a completion on a stream whose substream   *)
(* has a ring of 1..MaxBufFrames frames, from any hwptr, for packets that  *)
(* fit the ring.                                                           *)
(***************************************************************************)
RingPattern(n) == [j \in 1..n |-> ((j - 1) % 255) + 1]
UrbPattern == [j \in 1..SL3_URB_BUFFER_SIZE |-> 255 - ((j - 1) % 101)]
HwptrStarts(b) == {0, b - 1, 1003, UIntWrap - 1}

RingInit ==
    /\ CfgQuiet /\ HidQuiet /\ CtxQuiet /\ ObsQuiet /\ CtlQuiet /\ ErrQuiet /\ UsbBound
    /\ \E s \in Streams, b \in 1..MaxBufFrames : \E h \in HwptrStarts(b) :
        /\ running = [t \in Streams |-> t = s]
        /\ substream = [t \in Streams |-> t = s]
        /\ hwptr = [t \in Streams |-> IF t = s THEN h ELSE 0]
        /\ transfer_done = [t \in Streams |-> 0]
        /\ urb = [t \in Streams |-> <<>>]
        /\ period_size = [t \in Streams |-> IF t = s THEN b ELSE 0]
        /\ buffer_size = [t \in Streams |-> IF t = s THEN b ELSE 0]
        /\ pcm_state = [t \in Streams |-> IF t = s THEN "running" ELSE "closed"]
        /\ dma_area = [t \in Streams |-> IF t = s THEN RingPattern(BufferBytes(b)) ELSE <<>>]
        /\ urb_buffer = [t \in Streams |-> IF t = s THEN UrbPattern ELSE <<>>]
        /\ iso_length = [i \in 1..SL3_ISO_PACKETS |-> 0]

\* sl3_fill_playback_urb, one packet of `samples` frames at the URB offset
\* the loop has reached.
PlaybackCopyPacket ==
    /\ running[PLAYBACK] /\ substream[PLAYBACK] /\ buffer_size[PLAYBACK] > 0
    /\ obs.calls < MaxCopies
    /\ \E samples \in 0..(SL3_MAX_PACKET_SIZE \div SL3_BYTES_PER_FRAME) :
        LET bytes == samples * SL3_BYTES_PER_FRAME
            i == obs.calls + 1
            offset == SumSeq(SubSeq(iso_length, 1, i - 1))
        IN  /\ bytes <= BufferBytes(buffer_size[PLAYBACK])
            /\ urb_buffer' = [urb_buffer EXCEPT ![PLAYBACK] = Memcpy(@, offset,
                    RingRead(dma_area[PLAYBACK], buffer_size[PLAYBACK], hwptr[PLAYBACK], bytes),
                    bytes)]
            /\ iso_length' = [iso_length EXCEPT ![i] = bytes]
            /\ hwptr' = [hwptr EXCEPT ![PLAYBACK] = (@ + samples) % UIntWrap]
            /\ transfer_done' = [transfer_done EXCEPT ![PLAYBACK] = (@ + samples) % UIntWrap]
            /\ obs' = [obs EXCEPT !.op = "copy_out", !.calls = @ + 1,
                                  !.stream = PLAYBACK, !.hwptr = hwptr[PLAYBACK],
                                  !.bytes = bytes, !.offset = offset,
                                  !.ring = dma_area[PLAYBACK]]
    /\ UNCHANGED <<dma_area, running, substream, urb>>
    /\ UNCHANGED <<cfgVars, pcmVars, hidVars, ctxVars>>
    /\ UNCHANGED <<ctlVars, errVars, usbVars>>

\* sl3_capture_complete, one packet whose actual_length the device reported.
CaptureCopyPacket ==
    /\ running[CAPTURE] /\ substream[CAPTURE] /\ buffer_size[CAPTURE] > 0
    /\ obs.calls < MaxCopies
    /\ \E actual \in 0..SL3_MAX_PACKET_SIZE :
        LET samples == actual \div SL3_BYTES_PER_FRAME
            bytes == samples * SL3_BYTES_PER_FRAME
            i == obs.calls + 1
            pkt_off == (i - 1) * SL3_MAX_PACKET_SIZE
        IN  /\ actual % SL3_BYTES_PER_FRAME \in {0, 17}
            /\ bytes <= BufferBytes(buffer_size[CAPTURE])
            /\ IF bytes = 0
               THEN UNCHANGED <<dma_area, hwptr, transfer_done>>
               ELSE /\ dma_area' = [dma_area EXCEPT ![CAPTURE] =
                                        RingWrite(@, buffer_size[CAPTURE], hwptr[CAPTURE],
                                                  Slice(urb_buffer[CAPTURE], pkt_off, bytes),
                                                  bytes)]
                    /\ hwptr' = [hwptr EXCEPT ![CAPTURE] = (@ + samples) % UIntWrap]
                    /\ transfer_done' = [transfer_done EXCEPT ![CAPTURE] = (@ + samples) % UIntWrap]
            /\ obs' = [obs EXCEPT !.op = "copy_in", !.calls = @ + 1,
                                  !.stream = CAPTURE, !.hwptr = hwptr[CAPTURE],
                                  !.bytes = bytes, !.offset = pkt_off,
                                  !.ring = dma_area[CAPTURE]]
    /\ UNCHANGED <<urb_buffer, iso_length, running, substream, urb>>
    /\ UNCHANGED <<cfgVars, pcmVars, hidVars, ctxVars>>
    /\ UNCHANGED <<ctlVars, errVars, usbVars>>

RingNext == PlaybackCopyPacket \/ CaptureCopyPacket
SpecRing == RingInit /\ [][RingNext]_vars

\* The ring offset of byte k of a packet copied at hwptr h.
RingOffset(h, k, ring_size) == (h * SL3_BYTES_PER_FRAME + k) % ring_size

\* C9: a packet of bytes <= ring_size is read from (playback) or written to
\* (capture) exactly the ring offsets (hwptr*18 + k) mod ring_size, k =
\* 0..bytes-1, in order: the URB holds the ring's bytes, or the ring the
\* URB's, and no other byte of the ring changes.
C9_RingWrap ==
    LET ring_size == BufferBytes(buffer_size[obs.stream])
        at == {RingOffset(obs.hwptr, k, ring_size) : k \in 0..(obs.bytes - 1)}
    IN  /\ obs.op = "copy_out" =>
            /\ \A k \in 0..(obs.bytes - 1) :
                At(urb_buffer[PLAYBACK], obs.offset + k)
                    = At(dma_area[PLAYBACK], RingOffset(obs.hwptr, k, ring_size))
            /\ dma_area[PLAYBACK] = obs.ring
        /\ obs.op = "copy_in" =>
            /\ \A k \in 0..(obs.bytes - 1) :
                At(dma_area[CAPTURE], RingOffset(obs.hwptr, k, ring_size))
                    = At(urb_buffer[CAPTURE], obs.offset + k)
            /\ Len(dma_area[CAPTURE]) = ring_size
            /\ \A j \in 0..(ring_size - 1) :
                j \notin at => At(dma_area[CAPTURE], j) = At(obs.ring, j)
\* a packet that was split at the ring end
C9_Witness ==
    /\ obs.op \in {"copy_out", "copy_in"}
    /\ obs.bytes = SL3_MAX_PACKET_SIZE
    /\ (obs.hwptr % buffer_size[obs.stream]) * SL3_BYTES_PER_FRAME + obs.bytes
            > BufferBytes(buffer_size[obs.stream])
    /\ obs.calls = 2

(***************************************************************************)
(* sl3_fill_playback_urb.                                                  *)
(***************************************************************************)
\* the frames of a packet taken from the feedback count: the count spread
\* over the packets that remain, at most a full packet
FeedbackSamples_floor(feedback_total, remaining) ==
    Min(feedback_total \div remaining, SL3_MAX_PACKET_SIZE \div SL3_BYTES_PER_FRAME)

FeedbackSamples(feedback_total, remaining) ==
    Min((feedback_total + remaining - 1) \div remaining,
        SL3_MAX_PACKET_SIZE \div SL3_BYTES_PER_FRAME)

\* The packet loop from packet i (1..8) on.  st holds what the loop updates:
\* feedback_total, the accumulator, hwptr, transfer_done, offset, the packet
\* lengths and the transfer buffer; env what it reads: capture.running, the
\* rate, whether a ring is attached (runtime && runtime->dma_area), the ring
\* and its size in frames.
RECURSIVE FillLoop(_, _, _)
FillLoop(i, st, env) ==
    IF i > SL3_ISO_PACKETS THEN st
    ELSE
      LET use_fb == env.cap_running /\ st.feedback_total > 0
          remaining == SL3_ISO_PACKETS - (i - 1)
          nps == NextPacketSamples(env.rate, st.acc)
          samples == IF use_fb THEN FeedbackSamples(st.feedback_total, remaining)
                     ELSE nps[1]
          bytes == samples * SL3_BYTES_PER_FRAME
      IN  FillLoop(i + 1,
            [feedback_total |-> IF use_fb THEN st.feedback_total - samples
                                ELSE st.feedback_total,
             acc |-> IF use_fb THEN st.acc ELSE nps[2],
             hwptr |-> IF env.has_ring THEN (st.hwptr + samples) % UIntWrap ELSE st.hwptr,
             transfer_done |-> IF env.has_ring THEN (st.transfer_done + samples) % UIntWrap
                               ELSE st.transfer_done,
             offset |-> st.offset + bytes,
             lengths |-> Append(st.lengths, bytes),
             buffer |-> IF env.has_ring
                        THEN Memcpy(st.buffer, st.offset,
                                    RingRead(env.ring, env.buf_size, st.hwptr, bytes), bytes)
                        ELSE Memcpy(st.buffer, st.offset, Bytes(bytes, 0), bytes)],
            env)

(***************************************************************************)
(* The period accounting of a completion: transfer_done after the loop     *)
(* `while (transfer_done >= period_size) transfer_done -= period_size`,    *)
(* and do_elapsed, as <<transfer_done, do_elapsed>>.  period_size >= 1.    *)
(***************************************************************************)
RECURSIVE PeriodLoop_gt(_, _, _)
PeriodLoop_gt(td, psize, do_elapsed) ==
    IF td > psize THEN PeriodLoop_gt(td - psize, psize, TRUE) ELSE <<td, do_elapsed>>

PeriodLoop_once(td, psize, do_elapsed) ==
    IF td >= psize THEN <<td - psize, TRUE>> ELSE <<td, do_elapsed>>

RECURSIVE PeriodLoop(_, _, _)
PeriodLoop(td, psize, do_elapsed) ==
    IF td >= psize THEN PeriodLoop(td - psize, psize, TRUE) ELSE <<td, do_elapsed>>

\* The state a stream's completion works on: a ring is attached once the
\* substream is open and hw_params gave it a buffer.
HasRing(s) == substream[s] /\ buffer_size[s] > 0

\* what a completion adds to the observation of stream s: adv frames were
\* advanced, and period-elapsed was signalled or not
Observe(o, s, adv, elapsed) ==
    [o EXCEPT !.stream = s,
              !.done = [@ EXCEPT ![s] = @ + 1],
              !.total = [@ EXCEPT ![s] = @ + adv],
              !.maxadv = [@ EXCEPT ![s] = IF adv > @ THEN adv ELSE @],
              !.signals = [@ EXCEPT ![s] = IF elapsed THEN @ + 1 ELSE @],
              \* a completion moved hwptr and transfer_done after a stop returned
              !.late = [@ EXCEPT ![s] = @ \/ (o.stopped[s] /\ adv > 0)]]

(***************************************************************************)
(* sl3_playback_complete with status 0 on a running, connected stream: the *)
(* part under stream->lock, and snd_pcm_period_elapsed after it.           *)
(***************************************************************************)
PlaybackProcess ==
    LET s == PLAYBACK
        st == FillLoop(1,
                [feedback_total |-> feedback_samples, acc |-> sample_accumulator,
                 hwptr |-> hwptr[s], transfer_done |-> transfer_done[s],
                 offset |-> 0, lengths |-> <<>>, buffer |-> urb_buffer[s]],
                [cap_running |-> running[CAPTURE], rate |-> current_rate,
                 has_ring |-> HasRing(s), ring |-> dma_area[s], buf_size |-> buffer_size[s]])
        pl == IF substream[s] THEN PeriodLoop(st.transfer_done, period_size[s], FALSE)
              ELSE <<st.transfer_done, FALSE>>
        adv == (st.hwptr - hwptr[s]) % UIntWrap
    IN  /\ sample_accumulator' = st.acc
        /\ hwptr' = [hwptr EXCEPT ![s] = st.hwptr]
        /\ transfer_done' = [transfer_done EXCEPT ![s] = pl[1]]
        /\ urb_buffer' = [urb_buffer EXCEPT ![s] = st.buffer]
        /\ iso_length' = st.lengths
        /\ obs' = [Observe(obs, s, adv, pl[2]) EXCEPT
                        !.op = "playback_complete", !.feedback = feedback_samples,
                        !.acc = sample_accumulator, !.cap_running = running[CAPTURE]]

(***************************************************************************)
(* sl3_capture_complete with status 0 on a running, connected stream.      *)
(* actual[i] is the actual_length the device reported for packet i.        *)
(***************************************************************************)
RECURSIVE CaptureLoop(_, _, _, _)
CaptureLoop(i, st, actual, env) ==
    IF i > SL3_ISO_PACKETS THEN st
    ELSE
      LET samples == actual[i] \div SL3_BYTES_PER_FRAME
          bytes == samples * SL3_BYTES_PER_FRAME
          pkt_off == (i - 1) * SL3_MAX_PACKET_SIZE
          skip == ~env.has_ring \/ bytes = 0
      IN  CaptureLoop(i + 1,
            [total_samples |-> st.total_samples + samples,
             hwptr |-> IF skip THEN st.hwptr ELSE (st.hwptr + samples) % UIntWrap,
             transfer_done |-> IF skip THEN st.transfer_done
                               ELSE (st.transfer_done + samples) % UIntWrap,
             ring |-> IF skip THEN st.ring
                      ELSE RingWrite(st.ring, env.buf_size, st.hwptr,
                                     Slice(env.buffer, pkt_off, bytes), bytes)],
            actual, env)

CaptureProcess_ringonly(actual) ==
    LET s == CAPTURE
        st == CaptureLoop(1,
                [total_samples |-> 0, hwptr |-> hwptr[s],
                 transfer_done |-> transfer_done[s], ring |-> dma_area[s]],
                actual,
                [has_ring |-> HasRing(s), buf_size |-> buffer_size[s], buffer |-> urb_buffer[s]])
        pl == IF substream[s] THEN PeriodLoop(st.transfer_done, period_size[s], FALSE)
              ELSE <<st.transfer_done, FALSE>>
        adv == (st.hwptr - hwptr[s]) % UIntWrap
    IN  /\ hwptr' = [hwptr EXCEPT ![s] = st.hwptr]
        /\ transfer_done' = [transfer_done EXCEPT ![s] = pl[1]]
        /\ dma_area' = [dma_area EXCEPT ![s] = st.ring]
        /\ feedback_samples' = adv
        /\ obs' = [Observe(obs, s, adv, pl[2]) EXCEPT
                        !.op = "capture_complete", !.feedback = adv]

CaptureProcess(actual) ==
    LET s == CAPTURE
        st == CaptureLoop(1,
                [total_samples |-> 0, hwptr |-> hwptr[s],
                 transfer_done |-> transfer_done[s], ring |-> dma_area[s]],
                actual,
                [has_ring |-> HasRing(s), buf_size |-> buffer_size[s], buffer |-> urb_buffer[s]])
        pl == IF substream[s] THEN PeriodLoop(st.transfer_done, period_size[s], FALSE)
              ELSE <<st.transfer_done, FALSE>>
        adv == (st.hwptr - hwptr[s]) % UIntWrap
    IN  /\ hwptr' = [hwptr EXCEPT ![s] = st.hwptr]
        /\ transfer_done' = [transfer_done EXCEPT ![s] = pl[1]]
        /\ dma_area' = [dma_area EXCEPT ![s] = st.ring]
        /\ feedback_samples' = st.total_samples
        /\ obs' = [Observe(obs, s, adv, pl[2]) EXCEPT
                        !.op = "capture_complete", !.feedback = st.total_samples]

\* The packet lengths a device reports for a URB that carries f frames: full
\* packets first; slack is the bytes past the last whole frame of packet 1.
ActualLengths(f, slack) ==
    [i \in 1..SL3_ISO_PACKETS |->
        LET before == (i - 1) * 7
            n == IF f >= before + 7 THEN 7 ELSE IF f > before THEN f - before ELSE 0
        IN  IF i = 1 /\ n < 7 THEN n * SL3_BYTES_PER_FRAME + slack
            ELSE n * SL3_BYTES_PER_FRAME]

(***************************************************************************)
(* The completion handlers for a successful URB (status 0), whole: the     *)
(* check of running and disconnected, the processing, the resubmission.    *)
(* urb[s][i] says where URB i of stream s is.                              *)
(***************************************************************************)
PlaybackCompleteOK(i) ==
    /\ urb[PLAYBACK][i] = "inflight"
    /\ running[PLAYBACK] /\ ~disconnected
    /\ substream[PLAYBACK] => period_size[PLAYBACK] > 0
    /\ PlaybackProcess
    \* resubmit: still running and connected, the URB is in flight again
    /\ UNCHANGED <<current_rate, feedback_samples, disconnected>>
    /\ UNCHANGED <<running, substream, urb, dma_area>>
    /\ UNCHANGED <<pcmVars, hidVars, ctxVars>>
    /\ UNCHANGED <<ctlVars, errVars, usbVars>>

CaptureCompleteOK(i, actual) ==
    /\ urb[CAPTURE][i] = "inflight"
    /\ running[CAPTURE] /\ ~disconnected
    /\ substream[CAPTURE] => period_size[CAPTURE] > 0
    /\ CaptureProcess(actual)
    /\ UNCHANGED <<current_rate, sample_accumulator, disconnected>>
    /\ UNCHANGED <<running, substream, urb, urb_buffer, iso_length>>
    /\ UNCHANGED <<pcmVars, hidVars, ctxVars>>
    /\ UNCHANGED <<ctlVars, errVars, usbVars>>

(***************************************************************************)
(* SpecFill: playback is running, with or without a host ring, capture is  *)
(* running or not, and the last capture completion published any count a   *)
(* URB can carry (8 packets of at most 7 frames).  Playback URBs complete. *)
(***************************************************************************)
FeedbackMax == SL3_ISO_PACKETS * (SL3_MAX_PACKET_SIZE \div SL3_BYTES_PER_FRAME)

FillInit ==
    /\ current_rate \in Rates
    \* the accumulator only moves at 44.1 kHz and a rate switch zeroes it
    /\ sample_accumulator \in (IF current_rate = 44100 THEN {0, 4100} ELSE {0})
    /\ feedback_samples \in 0..FeedbackMax
    /\ disconnected = FALSE
    /\ \E cap \in BOOLEAN, ring \in BOOLEAN :
        /\ running = [s \in Streams |-> IF s = PLAYBACK THEN TRUE ELSE cap]
        /\ substream = [s \in Streams |-> IF s = PLAYBACK THEN ring ELSE FALSE]
        /\ period_size = [s \in Streams |-> IF s = PLAYBACK /\ ring THEN 4 ELSE 0]
        /\ buffer_size = [s \in Streams |-> IF s = PLAYBACK /\ ring THEN 8 ELSE 0]
        /\ pcm_state = [s \in Streams |-> IF s = PLAYBACK /\ ring THEN "running" ELSE "closed"]
        /\ dma_area = [s \in Streams |->
                        IF s = PLAYBACK /\ ring THEN RingPattern(BufferBytes(8)) ELSE <<>>]
    /\ hwptr = [s \in Streams |-> 0]
    /\ transfer_done = [s \in Streams |-> 0]
    /\ urb = [s \in Streams |-> <<"inflight">>]
    /\ urb_buffer = [s \in Streams |-> UrbPattern]
    /\ iso_length = [i \in 1..SL3_ISO_PACKETS |-> SL3_SAMPLES_48K * SL3_BYTES_PER_FRAME]
    /\ HidQuiet /\ CtxQuiet /\ ObsQuiet /\ CtlQuiet /\ ErrQuiet /\ UsbBound

FillPlaybackComplete ==
    /\ obs.done[PLAYBACK] < MaxFills
    /\ PlaybackCompleteOK(1)

FillNext == FillPlaybackComplete
SpecFill == FillInit /\ [][FillNext]_vars

CeilDiv(a, b) == (a + b - 1) \div b

\* What C6 says of a fill that found capture running and a feedback count in
\* `counts`: the 8 packet lengths sum to the count, each is the ceiling of
\* what remains over the packets that remain and at most 7 frames, and the
\* accumulator is as it was.
FeedbackSpread(counts) ==
    (obs.op = "playback_complete" /\ obs.cap_running /\ obs.feedback \in counts) =>
        /\ Len(iso_length) = SL3_ISO_PACKETS
        /\ SumSeq(iso_length) = obs.feedback * SL3_BYTES_PER_FRAME
        /\ \A i \in 1..SL3_ISO_PACKETS :
            LET sent == SumSeq(SubSeq(iso_length, 1, i - 1)) \div SL3_BYTES_PER_FRAME IN
            /\ iso_length[i] = SL3_BYTES_PER_FRAME
                                * CeilDiv(obs.feedback - sent, SL3_ISO_PACKETS - i + 1)
            /\ iso_length[i] <= SL3_MAX_PACKET_SIZE
        /\ sample_accumulator = obs.acc

\* C6 as claimed: with capture running and a published count F, 1 <= F <= 56,
\* the next fill's 8 packets carry exactly F frames (each the ceiling of the
\* remaining count over the remaining packets, at most 7) and the
\* accumulator is not advanced.
C6_FeedbackAnyCount == FeedbackSpread(1..56)
\* C6 amended: the same for 8 <= F <= 56.  For F < 8 the count runs out
\* before the last packet, whose size then comes from the accumulator.
C6_FeedbackFromEight == FeedbackSpread(8..56)
C6_Witness ==
    /\ obs.op = "playback_complete" /\ obs.cap_running
    /\ obs.feedback = 50
    /\ current_rate = 44100
    /\ iso_length = <<126, 126, 108, 108, 108, 108, 108, 108>>
    /\ obs.done[PLAYBACK] = 2

(***************************************************************************)
(* SpecPeriod: both streams run on rings whose period is any of            *)
(* PeriodSizes frames, and URBs of either stream complete.  A capture URB  *)
(* carries any of CaptureTotals frames.                                    *)
(***************************************************************************)
PeriodSizes == {1, 6, 48, 57}
CaptureTotals == {0, 7, 50, 56}
RingFrames(p) == p * (IF p >= 8 THEN 2 ELSE CeilDiv(8, p))

PeriodInit ==
    /\ current_rate \in Rates
    /\ sample_accumulator = 0
    /\ feedback_samples = 0
    /\ disconnected = FALSE
    /\ running = [s \in Streams |-> TRUE]
    /\ substream = [s \in Streams |-> TRUE]
    /\ hwptr = [s \in Streams |-> 0]
    /\ transfer_done = [s \in Streams |-> 0]
    /\ urb = [s \in Streams |-> <<"inflight">>]
    /\ \E p \in PeriodSizes :
        /\ period_size = [s \in Streams |-> p]
        /\ buffer_size = [s \in Streams |-> RingFrames(p)]
        /\ dma_area = [s \in Streams |-> RingPattern(BufferBytes(RingFrames(p)))]
    /\ pcm_state = [s \in Streams |-> "running"]
    /\ urb_buffer = [s \in Streams |-> UrbPattern]
    /\ iso_length = [i \in 1..SL3_ISO_PACKETS |-> SL3_SAMPLES_48K * SL3_BYTES_PER_FRAME]
    /\ HidQuiet /\ CtxQuiet /\ ObsQuiet /\ CtlQuiet /\ ErrQuiet /\ UsbBound

PeriodPlaybackComplete ==
    /\ obs.done[PLAYBACK] < MaxCompletions
    /\ PlaybackCompleteOK(1)

PeriodCaptureComplete ==
    /\ obs.done[CAPTURE] < MaxCompletions
    /\ \E f \in CaptureTotals, slack \in {0, 17} :
        CaptureCompleteOK(1, ActualLengths(f, slack))

PeriodNext == PeriodPlaybackComplete \/ PeriodCaptureComplete
SpecPeriod == PeriodInit /\ [][PeriodNext]_vars

\* C4 as claimed: for every period_size >= 1, the period-elapsed signals of
\* a stream number floor(total frames / period_size).
C4_SignalsAreFloor ==
    \A s \in Streams : obs.signals[s] = obs.total[s] \div period_size[s]
\* C4 amended: the signals number floor(total / period_size) as long as no
\* completion advanced the stream by more than period_size frames; in
\* general they are at most that many, one per completion at most, and
\* transfer_done is total mod period_size.
C4_SignalsWithinPeriod ==
    \A s \in Streams :
        /\ obs.maxadv[s] <= period_size[s]
                => obs.signals[s] = obs.total[s] \div period_size[s]
        /\ obs.signals[s] <= obs.total[s] \div period_size[s]
        /\ obs.signals[s] <= obs.done[s]
        /\ transfer_done[s] = obs.total[s] % period_size[s]
\* three playback URBs of 56 frames each against a period of 57 frames
C4_Witness ==
    /\ period_size[PLAYBACK] = 57
    /\ obs.total[PLAYBACK] = 168 /\ obs.maxadv[PLAYBACK] = 56
    /\ obs.done[PLAYBACK] = 3 /\ obs.signals[PLAYBACK] = 2
    /\ transfer_done[PLAYBACK] = 54
    /\ obs.signals[CAPTURE] = 0 /\ obs.total[CAPTURE] = 56

(***************************************************************************)
(* sl3_hid_in_complete.  The device has written actual_length bytes of     *)
(* `report` to hid_in_buf and the URB completed with `status`.             *)
(***************************************************************************)
HidStatuses == {"OK", "ENOENT", "ECONNRESET", "ESHUTDOWN", "EOVERFLOW", "EPIPE", "EPROTO"}

\* What the handler can write, as it stands before the call.
HidCaches ==
    [overload_status |-> overload_status, phono_status |-> phono_status,
     usb_port_status |-> usb_port_status, hid_response_buf |-> hid_response_buf,
     hid_response_done |-> hid_response_done, notified |-> {}]

\* `switch (data[0])`: the caches, the mailbox, its completion and the
\* controls notified, after the dispatch.
HidDispatch_fallthrough(data, actual_length) ==
    LET code == At(data, 0)
        resp == [HidCaches EXCEPT
                    !.hid_response_buf =
                        Memcpy(@, 0, data, Min(actual_length, SL3_HID_REPORT_SIZE)),
                    !.hid_response_done = @ + 1]
    IN  CASE code = SL3_HID_NOTIFY_OVERLOAD ->
                IF actual_length >= 11
                THEN [HidCaches EXCEPT !.overload_status = Slice(data, 5, 6),
                        !.notified = IF card /\ overload_ctl THEN {"overload"} ELSE {}]
                ELSE HidCaches
          [] code = SL3_HID_NOTIFY_PHONO ->
                IF actual_length >= 8
                THEN [HidCaches EXCEPT !.phono_status = Slice(data, 5, 3),
                        !.notified = IF card /\ phono_ctl THEN {"phono"} ELSE {}]
                ELSE HidCaches
          [] code = SL3_HID_NOTIFY_USB_PORT ->
                IF actual_length >= 9
                THEN [resp EXCEPT !.usb_port_status = Slice(data, 5, 4)]
                ELSE resp
          [] OTHER -> resp

HidDispatch(data, actual_length) ==
    LET code == At(data, 0)
    IN  CASE code = SL3_HID_NOTIFY_OVERLOAD ->
                IF actual_length >= 11
                THEN [HidCaches EXCEPT !.overload_status = Slice(data, 5, 6),
                        !.notified = IF card /\ overload_ctl THEN {"overload"} ELSE {}]
                ELSE HidCaches
          [] code = SL3_HID_NOTIFY_PHONO ->
                IF actual_length >= 8
                THEN [HidCaches EXCEPT !.phono_status = Slice(data, 5, 3),
                        !.notified = IF card /\ phono_ctl THEN {"phono"} ELSE {}]
                ELSE HidCaches
          [] code = SL3_HID_NOTIFY_USB_PORT ->
                IF actual_length >= 9
                THEN [HidCaches EXCEPT !.usb_port_status = Slice(data, 5, 4)]
                ELSE HidCaches
          [] OTHER ->
                [HidCaches EXCEPT
                    !.hid_response_buf =
                        Memcpy(@, 0, data, Min(actual_length, SL3_HID_REPORT_SIZE)),
                    !.hid_response_done = @ + 1]

\* The whole callback: the switch on urb->status, the dispatch, the resubmit.
HidInComplete_resetresubmits(status, report, actual_length) ==
    LET data == Memcpy(hid_in_buf, 0, report, actual_length)
        killed == status = "ENOENT"
        gone == status = "ESHUTDOWN"
        dispatch == status = "OK" /\ actual_length >= 1
        after == IF dispatch THEN HidDispatch(data, actual_length) ELSE HidCaches
    IN  /\ hid_in_urb = "inflight"
        /\ hid_in_buf' = data
        /\ overload_status' = after.overload_status
        /\ phono_status' = after.phono_status
        /\ usb_port_status' = after.usb_port_status
        /\ hid_response_buf' = after.hid_response_buf
        /\ hid_response_done' = after.hid_response_done
        /\ disconnected' = (disconnected \/ gone)
        /\ hid_in_urb' = IF killed \/ gone \/ disconnected THEN "idle" ELSE "inflight"
        /\ obs' = [obs EXCEPT !.op = "hid_in", !.calls = @ + 1, !.status = status,
                              !.code = At(data, 0), !.alen = actual_length,
                              !.pre = HidCaches, !.notified = after.notified]
        /\ UNCHANGED <<hid_out_buf, card, overload_ctl, phono_ctl>>

HidInComplete(status, report, actual_length) ==
    LET data == Memcpy(hid_in_buf, 0, report, actual_length)
        killed == status \in {"ENOENT", "ECONNRESET"}
        gone == status = "ESHUTDOWN"
        dispatch == status = "OK" /\ actual_length >= 1
        after == IF dispatch THEN HidDispatch(data, actual_length) ELSE HidCaches
    IN  /\ hid_in_urb = "inflight"
        /\ hid_in_buf' = data
        /\ overload_status' = after.overload_status
        /\ phono_status' = after.phono_status
        /\ usb_port_status' = after.usb_port_status
        /\ hid_response_buf' = after.hid_response_buf
        /\ hid_response_done' = after.hid_response_done
        /\ disconnected' = (disconnected \/ gone)
        /\ hid_in_urb' = IF killed \/ gone \/ disconnected THEN "idle" ELSE "inflight"
        /\ obs' = [obs EXCEPT !.op = "hid_in", !.calls = @ + 1, !.status = status,
                              !.code = At(data, 0), !.alen = actual_length,
                              !.pre = HidCaches, !.notified = after.notified]
        /\ UNCHANGED <<hid_out_buf, card, overload_ctl, phono_ctl>>

(***************************************************************************)
(* SpecHidIn: reports of any code and length arrive on the HID IN URB,     *)
(* during probe (no card yet, or no controls yet) and after it.            *)
(***************************************************************************)
MaxReports == 2
ReportCodes == {SL3_HID_NOTIFY_OVERLOAD, SL3_HID_NOTIFY_PHONO, SL3_HID_NOTIFY_USB_PORT,
                SL3_HID_CMD_QUERY_PHONO, 0}
ReportLengths == {0, 5, 8, 10, 11, SL3_HID_REPORT_SIZE}
\* the n-th report with a code: byte 0 is the code, the rest tells reports apart
ReportOf(code, n) ==
    [k \in 1..SL3_HID_REPORT_SIZE |-> IF k = 1 THEN code ELSE (code + 7 * n + k) % 256]

HidInInit ==
    /\ CfgQuiet /\ StrQuiet /\ PcmQuiet /\ BufQuiet /\ CtxQuiet /\ ObsQuiet /\ CtlQuiet /\ ErrQuiet /\ UsbBound
    /\ hid_in_buf = Bytes(SL3_HID_REPORT_SIZE, 0)
    /\ hid_out_buf = Bytes(SL3_HID_REPORT_SIZE, 0)
    /\ hid_response_buf = Bytes(SL3_HID_REPORT_SIZE, 0)
    /\ hid_response_done = 0
    /\ overload_status = Bytes(6, 0)
    /\ phono_status = Bytes(3, 0)
    /\ usb_port_status = Bytes(4, 0)
    /\ hid_in_urb = "inflight"
    \* sl3_pcm_init sets card, sl3_control_init overload_ctl and then phono_ctl
    /\ \E made \in 0..3 :
        /\ card = (made >= 1)
        /\ overload_ctl = (made >= 2)
        /\ phono_ctl = (made >= 3)

HidInReport ==
    /\ obs.calls < MaxReports
    /\ \E code \in ReportCodes, len \in ReportLengths :
        HidInComplete("OK", ReportOf(code, obs.calls + 1), len)
    /\ UNCHANGED <<current_rate, sample_accumulator, feedback_samples>>
    /\ UNCHANGED <<strVars, pcmVars, bufVars, ctxVars>>
    /\ UNCHANGED <<ctlVars, errVars, usbVars>>

HidInError ==
    /\ obs.calls < MaxReports
    /\ \E status \in HidStatuses \ {"OK"} :
        HidInComplete(status, ReportOf(0, obs.calls + 1), 0)
    /\ UNCHANGED <<current_rate, sample_accumulator, feedback_samples>>
    /\ UNCHANGED <<strVars, pcmVars, bufVars, ctxVars>>
    /\ UNCHANGED <<ctlVars, errVars, usbVars>>

HidInNext == HidInReport \/ HidInError
SpecHidIn == HidInInit /\ [][HidInNext]_vars

\* C7: a successful report with code 0x34, 0x38 or 0x39 changes only its own
\* cache, notifies only the matching control (none for 0x39) and leaves the
\* mailbox and its completion alone; a report with any other code changes
\* only the mailbox, signals the waiter and leaves the three caches alone.
C7_NoCrossTalk ==
    (obs.op = "hid_in" /\ obs.status = "OK" /\ obs.alen >= 1) =>
        LET mailbox_kept == /\ hid_response_buf = obs.pre.hid_response_buf
                            /\ hid_response_done = obs.pre.hid_response_done
        IN
        /\ obs.code = SL3_HID_NOTIFY_OVERLOAD =>
            /\ phono_status = obs.pre.phono_status
            /\ usb_port_status = obs.pre.usb_port_status
            /\ mailbox_kept
            /\ obs.notified \subseteq {"overload"}
            /\ obs.alen >= 11 => overload_status = Slice(hid_in_buf, 5, 6)
        /\ obs.code = SL3_HID_NOTIFY_PHONO =>
            /\ overload_status = obs.pre.overload_status
            /\ usb_port_status = obs.pre.usb_port_status
            /\ mailbox_kept
            /\ obs.notified \subseteq {"phono"}
            /\ obs.alen >= 8 => phono_status = Slice(hid_in_buf, 5, 3)
        /\ obs.code = SL3_HID_NOTIFY_USB_PORT =>
            /\ overload_status = obs.pre.overload_status
            /\ phono_status = obs.pre.phono_status
            /\ mailbox_kept
            /\ obs.notified = {}
            /\ obs.alen >= 9 => usb_port_status = Slice(hid_in_buf, 5, 4)
        /\ obs.code \notin {SL3_HID_NOTIFY_OVERLOAD, SL3_HID_NOTIFY_PHONO,
                            SL3_HID_NOTIFY_USB_PORT} =>
            /\ overload_status = obs.pre.overload_status
            /\ phono_status = obs.pre.phono_status
            /\ usb_port_status = obs.pre.usb_port_status
            /\ obs.notified = {}
            /\ hid_response_done = obs.pre.hid_response_done + 1
            /\ hid_response_buf = Memcpy(obs.pre.hid_response_buf, 0, hid_in_buf,
                                         Min(obs.alen, SL3_HID_REPORT_SIZE))
\* a USB-port report after a response filled the mailbox
C7_Witness ==
    /\ obs.op = "hid_in" /\ obs.status = "OK" /\ obs.calls = 2
    /\ obs.code = SL3_HID_NOTIFY_USB_PORT /\ obs.alen = 11
    /\ usb_port_status # obs.pre.usb_port_status
    /\ hid_response_done = 1 /\ At(hid_response_buf, 0) = SL3_HID_CMD_QUERY_PHONO

(***************************************************************************)
(* The HID command path: sl3_hid_set_sample_rate and sl3_hid_set_routing   *)
(* around sl3_hid_send_cmd_locked, called from HidCallers, a step per      *)
(* blocking point.  The device answers every command it receives with a    *)
(* report that carries the command's code and, in byte 5, the number of    *)
(* the command among those it received; it delivers its answers in order,  *)
(* each at any later time.                                                 *)
(***************************************************************************)
HidCallers == {"c1", "c2"}
MaxCmds == 3
BadRate == 96000
SL3_PAIR_DECK_A == 8
SL3_PAIR_DECK_B == 14
SL3_PAIR_DECK_C == 20

DeviceResponse(cmd, n) ==
    [k \in 1..SL3_HID_REPORT_SIZE |-> IF k = 1 THEN cmd ELSE IF k = 6 THEN n ELSE 0]

NoCall == [fn |-> "none", cmd |-> 0, payload |-> <<>>, wait |-> FALSE,
           rate |-> 0, tag |-> 0, err |-> "none"]

HidInit ==
    /\ CfgQuiet /\ StrQuiet /\ PcmQuiet /\ BufQuiet /\ HidQuiet /\ ObsQuiet /\ CtlQuiet /\ ErrQuiet /\ UsbBound
    /\ stream_mutex = "free"
    /\ hid_mutex = "free"
    /\ pc = [t \in HidCallers |-> "idle"]
    /\ local = [t \in HidCallers |-> NoCall]
    /\ dev_queue = <<>>

\* sl3_hid_set_sample_rate is entered: the rate check, the payload.
HidCallSetRate(t) ==
    /\ pc[t] = "idle" /\ obs.cmds < MaxCmds
    /\ \E rate \in Rates \cup {BadRate} :
        IF rate # 44100 /\ rate # 48000
        THEN /\ obs' = [obs EXCEPT !.op = "hid_einval", !.cmds = @ + 1]
             /\ UNCHANGED <<pc, local>>
        ELSE /\ local' = [local EXCEPT ![t] =
                    [NoCall EXCEPT !.fn = "set_sample_rate", !.cmd = SL3_HID_CMD_SAMPLE_RATE,
                        !.payload = <<(rate \div 256) % 256, rate % 256>>,
                        !.wait = TRUE, !.rate = rate]]
             /\ pc' = [pc EXCEPT ![t] = "lock"]
             /\ obs' = [obs EXCEPT !.op = "hid_call", !.cmds = @ + 1]
    /\ UNCHANGED <<cfgVars, strVars, pcmVars, bufVars, hidVars>>
    /\ UNCHANGED <<stream_mutex, hid_mutex, dev_queue>>
    /\ UNCHANGED <<ctlVars, errVars, usbVars>>

\* sl3_hid_set_routing is entered.
HidCallSetRouting(t) ==
    /\ pc[t] = "idle" /\ obs.cmds < MaxCmds
    /\ \E mode \in {0, 1} :
        local' = [local EXCEPT ![t] =
                    [NoCall EXCEPT !.fn = "set_routing", !.cmd = SL3_HID_CMD_ROUTING,
                        !.payload = <<SL3_PAIR_DECK_A, 1, mode>>, !.wait = FALSE]]
    /\ pc' = [pc EXCEPT ![t] = "lock"]
    /\ obs' = [obs EXCEPT !.op = "hid_call", !.cmds = @ + 1]
    /\ UNCHANGED <<cfgVars, strVars, pcmVars, bufVars, hidVars>>
    /\ UNCHANGED <<stream_mutex, hid_mutex, dev_queue>>
    /\ UNCHANGED <<ctlVars, errVars, usbVars>>

\* mutex_lock(&dev->hid_mutex)
HidLock_nomutex(t) ==
    /\ pc[t] = "lock"
    /\ hid_mutex' = t
    /\ pc' = [pc EXCEPT ![t] = "build"]
    /\ obs' = [obs EXCEPT !.op = "hid_lock"]
    /\ UNCHANGED <<cfgVars, strVars, pcmVars, bufVars, hidVars>>
    /\ UNCHANGED <<stream_mutex, local, dev_queue>>
    /\ UNCHANGED <<ctlVars, errVars, usbVars>>

HidLock(t) ==
    /\ pc[t] = "lock" /\ hid_mutex = "free"
    /\ hid_mutex' = t
    /\ pc' = [pc EXCEPT ![t] = "build"]
    /\ obs' = [obs EXCEPT !.op = "hid_lock"]
    /\ UNCHANGED <<cfgVars, strVars, pcmVars, bufVars, hidVars>>
    /\ UNCHANGED <<stream_mutex, local, dev_queue>>
    /\ UNCHANGED <<ctlVars, errVars, usbVars>>

\* sl3_hid_send_cmd_locked up to the transfer: the disconnected check, the
\* report, reinit_completion.
HidBuild(t) ==
    /\ pc[t] = "build"
    /\ IF disconnected
       THEN /\ local' = [local EXCEPT ![t].err = "ENODEV"]
            /\ pc' = [pc EXCEPT ![t] = "unlock"]
            /\ UNCHANGED <<hid_out_buf, hid_response_done>>
       ELSE /\ hid_out_buf' = BuildReport(hid_out_buf, local[t].cmd,
                                [null |-> FALSE, data |-> local[t].payload],
                                Len(local[t].payload))
            /\ hid_response_done' = IF local[t].wait THEN 0 ELSE hid_response_done
            /\ pc' = [pc EXCEPT ![t] = "send"]
            /\ UNCHANGED local
    /\ obs' = [obs EXCEPT !.op = "hid_build"]
    /\ UNCHANGED <<hid_in_buf, hid_response_buf, overload_status, phono_status,
                   usb_port_status, hid_in_urb, card, overload_ctl, phono_ctl>>
    /\ UNCHANGED <<cfgVars, strVars, pcmVars, bufVars>>
    /\ UNCHANGED <<stream_mutex, hid_mutex, dev_queue>>
    /\ UNCHANGED <<ctlVars, errVars, usbVars>>

\* usb_interrupt_msg succeeded: the device has the command and will answer.
HidSendOk(t) ==
    /\ pc[t] = "send" /\ ~disconnected
    /\ dev_queue' = Append(dev_queue, DeviceResponse(At(hid_out_buf, 0), obs.sent + 1))
    /\ local' = [local EXCEPT ![t].tag = obs.sent + 1, ![t].err = "0"]
    /\ pc' = [pc EXCEPT ![t] = IF local[t].wait THEN "wait" ELSE "unlock"]
    /\ obs' = [obs EXCEPT !.op = "hid_sent", !.sent = @ + 1]
    /\ UNCHANGED <<cfgVars, strVars, pcmVars, bufVars, hidVars>>
    /\ UNCHANGED <<stream_mutex, hid_mutex>>
    /\ UNCHANGED <<ctlVars, errVars, usbVars>>

\* usb_interrupt_msg failed.
HidSendFail(t) ==
    /\ pc[t] = "send"
    /\ local' = [local EXCEPT ![t].err = "EIO"]
    /\ pc' = [pc EXCEPT ![t] = "unlock"]
    /\ obs' = [obs EXCEPT !.op = "hid_send_failed"]
    /\ UNCHANGED <<cfgVars, strVars, pcmVars, bufVars, hidVars>>
    /\ UNCHANGED <<stream_mutex, hid_mutex, dev_queue>>
    /\ UNCHANGED <<ctlVars, errVars, usbVars>>

\* wait_for_completion_timeout returns with time remaining: the completion
\* was signalled; sl3_hid_send_cmd_locked returns 0.
HidWaitDone(t) ==
    /\ pc[t] = "wait" /\ hid_response_done > 0
    /\ hid_response_done' = hid_response_done - 1
    /\ pc' = [pc EXCEPT ![t] = "unlock"]
    /\ obs' = [obs EXCEPT !.op = "hid_wait_ok", !.cmd = local[t].cmd,
                          !.tag = local[t].tag]
    /\ UNCHANGED <<hid_in_buf, hid_out_buf, hid_response_buf, overload_status,
                   phono_status, usb_port_status, hid_in_urb, card, overload_ctl,
                   phono_ctl>>
    /\ UNCHANGED <<cfgVars, strVars, pcmVars, bufVars>>
    /\ UNCHANGED <<stream_mutex, hid_mutex, local, dev_queue>>
    /\ UNCHANGED <<ctlVars, errVars, usbVars>>

\* 500 ms passed and the completion was not signalled.
HidWaitTimeout(t) ==
    /\ pc[t] = "wait" /\ hid_response_done = 0
    /\ local' = [local EXCEPT ![t].err = "ETIMEDOUT"]
    /\ pc' = [pc EXCEPT ![t] = "unlock"]
    /\ obs' = [obs EXCEPT !.op = "hid_timeout"]
    /\ UNCHANGED <<cfgVars, strVars, pcmVars, bufVars, hidVars>>
    /\ UNCHANGED <<stream_mutex, hid_mutex, dev_queue>>
    /\ UNCHANGED <<ctlVars, errVars, usbVars>>

\* back in the caller: current_rate on success, mutex_unlock, return.
HidUnlock(t) ==
    /\ pc[t] = "unlock"
    /\ current_rate' = IF local[t].fn = "set_sample_rate" /\ local[t].err = "0"
                       THEN local[t].rate ELSE current_rate
    /\ hid_mutex' = "free"
    /\ pc' = [pc EXCEPT ![t] = "idle"]
    /\ local' = [local EXCEPT ![t] = NoCall]
    /\ obs' = [obs EXCEPT !.op = "hid_return", !.err = local[t].err]
    /\ UNCHANGED <<sample_accumulator, feedback_samples, disconnected>>
    /\ UNCHANGED <<strVars, pcmVars, bufVars, hidVars>>
    /\ UNCHANGED <<stream_mutex, dev_queue>>
    /\ UNCHANGED <<ctlVars, errVars, usbVars>>

\* The device delivers its next answer on the HID IN URB.
HidInDeliver ==
    /\ dev_queue # <<>>
    /\ HidInComplete("OK", Head(dev_queue), SL3_HID_REPORT_SIZE)
    /\ dev_queue' = Tail(dev_queue)
    /\ UNCHANGED <<current_rate, sample_accumulator, feedback_samples>>
    /\ UNCHANGED <<strVars, pcmVars, bufVars>>
    /\ UNCHANGED <<stream_mutex, hid_mutex, pc, local>>
    /\ UNCHANGED <<ctlVars, errVars, usbVars>>

\* The device goes away: the HID IN URB completes with -ESHUTDOWN.
HidInGone ==
    /\ HidInComplete("ESHUTDOWN", <<>>, 0)
    /\ UNCHANGED <<current_rate, sample_accumulator, feedback_samples>>
    /\ UNCHANGED <<strVars, pcmVars, bufVars, ctxVars>>
    /\ UNCHANGED <<ctlVars, errVars, usbVars>>

HidNext ==
    \/ \E t \in HidCallers :
        \/ HidCallSetRate(t) \/ HidCallSetRouting(t) \/ HidLock(t) \/ HidBuild(t)
        \/ HidSendOk(t) \/ HidSendFail(t) \/ HidWaitDone(t) \/ HidWaitTimeout(t)
        \/ HidUnlock(t)
    \/ HidInDeliver
    \/ HidInGone
SpecHid == HidInit /\ [][HidNext]_vars

\* C10: whenever a command that waits for a response returns success, the
\* report in the mailbox is the device's response to that same command,
\* never the response to an earlier one.
C10_MailboxIsOwnResponse ==
    obs.op = "hid_wait_ok" =>
        /\ At(hid_response_buf, 0) = obs.cmd
        /\ At(hid_response_buf, 5) = obs.tag

(***************************************************************************)
(* The streaming engine as its callers drive it.  The calling contexts     *)
(* are the host's user of each substream (named as the stream), the        *)
(* control interface ("ctl"), the USB core disconnecting the device        *)
(* ("usb"), and the completion callbacks of the URBs.  Each stream has     *)
(* NumUrbs URBs; urb[s][i] is "idle", "inflight" (submitted), "callback"   *)
(* (its completion handler is past the running check), "freed" or          *)
(* "freed_inflight" (freed while submitted).                               *)
(***************************************************************************)
NumUrbs == 1
MaxPlaybackOps == 3
MaxCaptureOps == 1
MaxRatePuts == 1
MaxStreamCompletions == 1
StreamThreads == Streams \cup {"ctl", "usb"}
Other(s) == IF s = PLAYBACK THEN CAPTURE ELSE PLAYBACK
\* the opens, hw_params and starts the user of a substream makes in a run
MaxPcmOps(s) == IF s = PLAYBACK THEN MaxPlaybackOps ELSE MaxCaptureOps
\* the geometry the host gives a configured substream, and the frames a
\* capture URB brings
HostPeriodFrames == 4
HostBufferFrames == 8
StreamCaptureFrames == {48}
\* the urb->status values a completion is called with
UrbStatuses == {"OK"}

NoStreamCall == [rate |-> 0, err |-> "none", busy |-> FALSE, ops |-> 0,
                 rt_rate |-> 0, target |-> "none", next |-> "none"]

\* snd_card_disconnect has not run: the host still lets users in
CardOnline == pc["usb"] = "idle"

StreamInit ==
    /\ current_rate \in Rates
    /\ sample_accumulator = 0
    /\ feedback_samples = 0
    /\ disconnected = FALSE
    /\ running = [s \in Streams |-> FALSE]
    /\ substream = [s \in Streams |-> FALSE]
    /\ hwptr = [s \in Streams |-> 0]
    /\ transfer_done = [s \in Streams |-> 0]
    /\ urb = [s \in Streams |-> [i \in 1..NumUrbs |-> "idle"]]
    /\ PcmQuiet
    /\ dma_area = [s \in Streams |-> <<>>]
    /\ urb_buffer = [s \in Streams |-> Bytes(SL3_URB_BUFFER_SIZE, 0)]
    /\ iso_length = [i \in 1..SL3_ISO_PACKETS |-> 0]
    /\ HidQuiet
    /\ stream_mutex = "free"
    /\ hid_mutex = "free"
    /\ pc = [t \in StreamThreads |-> "idle"]
    /\ local = [t \in StreamThreads |-> NoStreamCall]
    /\ dev_queue = <<>>
    /\ ObsQuiet /\ CtlQuiet /\ UsbBound
    /\ error_retries = [s \in Streams |-> [i \in 1..NumUrbs |-> 0]]
    /\ play_underruns = 0
    /\ cap_overruns = 0

\* the accumulator after n calls of sl3_next_packet_samples
RECURSIVE AccAfter(_, _, _)
AccAfter(rate, acc, n) ==
    IF n = 0 THEN acc ELSE AccAfter(rate, NextPacketSamples(rate, acc)[2], n - 1)

\* sl3_prepare_playback_urb: the packet lengths of one URB
RECURSIVE PreparedLengths(_, _, _)
PreparedLengths(rate, acc, n) ==
    IF n = 0 THEN <<>>
    ELSE LET nps == NextPacketSamples(rate, acc)
         IN  <<nps[1] * SL3_BYTES_PER_FRAME>> \o PreparedLengths(rate, nps[2], n - 1)

\* the submit loop of sl3_urb_start: usb_submit_urb refuses an URB that is
\* still submitted, and the loop stops at the first refusal
SubmitAll(u) ==
    LET bad == {i \in DOMAIN u : u[i] # "idle"}
    IN  IF bad = {}
        THEN [urbs |-> [i \in DOMAIN u |-> "inflight"], ok |-> TRUE]
        ELSE LET first == CHOOSE i \in bad : \A j \in bad : i <= j
             IN  [urbs |-> [i \in DOMAIN u |-> IF i < first THEN "inflight" ELSE u[i]],
                  ok |-> FALSE]

\* sl3_urb_start(dev, stream): what it leaves, and whether it returned 0
UrbStart_restart(s) ==
    LET implicit == s = PLAYBACK /\ ~running[CAPTURE]
        cap == SubmitAll(urb[CAPTURE])
        own == SubmitAll(urb[s])
    IN  IF implicit /\ ~cap.ok
        THEN [ok |-> FALSE, prepared |-> TRUE, implicit |-> FALSE,
              running |-> [t \in Streams |-> FALSE],
              urb |-> [t \in Streams |-> IF t = CAPTURE THEN cap.urbs ELSE urb[t]]]
        ELSE [ok |-> own.ok, prepared |-> TRUE, implicit |-> implicit,
              running |-> [t \in Streams |->
                              IF t = s THEN own.ok
                              ELSE IF implicit THEN TRUE ELSE running[t]],
              urb |-> [t \in Streams |->
                              IF t = s THEN own.urbs
                              ELSE IF implicit THEN cap.urbs ELSE urb[t]]]

UrbStart(s) ==
    IF running[s]
    THEN [ok |-> TRUE, prepared |-> FALSE, implicit |-> FALSE, running |-> running,
          urb |-> urb]
    ELSE
      LET implicit == s = PLAYBACK /\ ~running[CAPTURE]
          cap == SubmitAll(urb[CAPTURE])
          own == SubmitAll(urb[s])
      IN  IF implicit /\ ~cap.ok
          THEN [ok |-> FALSE, prepared |-> TRUE, implicit |-> FALSE,
                running |-> [t \in Streams |-> FALSE],
                urb |-> [t \in Streams |-> IF t = CAPTURE THEN cap.urbs ELSE urb[t]]]
          ELSE [ok |-> own.ok, prepared |-> TRUE, implicit |-> implicit,
                running |-> [t \in Streams |->
                                IF t = s THEN own.ok
                                ELSE IF implicit THEN TRUE ELSE running[t]],
                urb |-> [t \in Streams |->
                                IF t = s THEN own.urbs
                                ELSE IF implicit THEN cap.urbs ELSE urb[t]]]

\* `if (dev->playback.running || dev->capture.running)` of sl3_set_sample_rate
RateBusy_playback == running[PLAYBACK]
RateBusy == running[PLAYBACK] \/ running[CAPTURE]

\* sl3_pcm_open
PcmOpen(s) ==
    /\ pc[s] = "idle" /\ CardOnline /\ pcm_state[s] = "closed"
    /\ local[s].ops < MaxPcmOps(s)
    /\ IF disconnected
       THEN UNCHANGED <<substream, pcm_state>>
       ELSE /\ substream' = [substream EXCEPT ![s] = TRUE]
            /\ pcm_state' = [pcm_state EXCEPT ![s] = "open"]
    /\ local' = [local EXCEPT ![s].ops = @ + 1]
    /\ obs' = [obs EXCEPT !.op = "step"]
    /\ UNCHANGED <<cfgVars, running, hwptr, transfer_done, urb, period_size, buffer_size>>
    /\ UNCHANGED <<bufVars, hidVars, stream_mutex, hid_mutex, pc, dev_queue>>
    /\ UNCHANGED <<ctlVars, errVars, usbVars>>

\* sl3_pcm_hw_params up to the call of sl3_set_sample_rate.  The rate rule
\* of sl3_pcm_hw_rule_rate holds the rate to the other substream's.
PcmHwParams(s) ==
    /\ pc[s] = "idle" /\ CardOnline /\ pcm_state[s] \in {"open", "setup", "prepared"}
    /\ local[s].ops < MaxPcmOps(s)
    /\ \E rate \in Rates :
        /\ (substream[Other(s)] /\ local[Other(s)].rt_rate # 0)
                => rate = local[Other(s)].rt_rate
        /\ IF disconnected
           THEN /\ local' = [local EXCEPT ![s].ops = @ + 1]
                /\ UNCHANGED pc
           ELSE /\ local' = [local EXCEPT ![s].ops = @ + 1, ![s].rate = rate]
                /\ pc' = [pc EXCEPT ![s] = "rate_lock"]
    /\ obs' = [obs EXCEPT !.op = "step"]
    /\ UNCHANGED <<cfgVars, strVars, pcmVars, bufVars, hidVars>>
    /\ UNCHANGED <<stream_mutex, hid_mutex, dev_queue>>
    /\ UNCHANGED <<ctlVars, errVars, usbVars>>

\* sl3_rate_put up to the call of sl3_set_sample_rate
CtlRatePut ==
    /\ pc["ctl"] = "idle" /\ CardOnline
    /\ local["ctl"].ops < MaxRatePuts
    /\ \E new_rate \in Rates :
        IF new_rate = current_rate
        THEN /\ local' = [local EXCEPT !["ctl"].ops = @ + 1]
             /\ UNCHANGED pc
        ELSE /\ local' = [local EXCEPT !["ctl"].ops = @ + 1, !["ctl"].rate = new_rate]
             /\ pc' = [pc EXCEPT !["ctl"] = "rate_lock"]
    /\ obs' = [obs EXCEPT !.op = "step"]
    /\ UNCHANGED <<cfgVars, strVars, pcmVars, bufVars, hidVars>>
    /\ UNCHANGED <<stream_mutex, hid_mutex, dev_queue>>
    /\ UNCHANGED <<ctlVars, errVars, usbVars>>

\* sl3_set_sample_rate: mutex_lock(&dev->stream_mutex)
RateLock(t) ==
    /\ pc[t] = "rate_lock" /\ stream_mutex = "free"
    /\ stream_mutex' = t
    /\ pc' = [pc EXCEPT ![t] = "rate_check"]
    /\ obs' = [obs EXCEPT !.op = "step"]
    /\ UNCHANGED <<cfgVars, strVars, pcmVars, bufVars, hidVars>>
    /\ UNCHANGED <<hid_mutex, local, dev_queue>>
    /\ UNCHANGED <<ctlVars, errVars, usbVars>>

\* sl3_set_sample_rate: the two checks under the mutex.  local[t].busy
\* records that the rate differed and a stream was running at the check.
RateCheck(t) ==
    /\ pc[t] = "rate_check"
    /\ LET same == local[t].rate = current_rate
           streaming == running[PLAYBACK] \/ running[CAPTURE]
       IN  /\ local' = [local EXCEPT ![t].busy = ~same /\ streaming,
                            ![t].err = IF same THEN "0"
                                       ELSE IF RateBusy THEN "EBUSY" ELSE "none"]
           /\ IF same \/ RateBusy
              THEN /\ stream_mutex' = "free"
                   /\ pc' = [pc EXCEPT ![t] = "rate_ret"]
              ELSE /\ pc' = [pc EXCEPT ![t] = "rate_hid"]
                   /\ UNCHANGED stream_mutex
           /\ obs' = [obs EXCEPT
                        !.op = IF ~same /\ RateBusy THEN "rate_busy" ELSE "step",
                        !.pre = IF ~same /\ RateBusy
                                THEN [current_rate |-> current_rate,
                                      sample_accumulator |-> sample_accumulator,
                                      hid_out_buf |-> hid_out_buf, sent |-> obs.sent]
                                ELSE @]
    /\ UNCHANGED <<cfgVars, strVars, pcmVars, bufVars, hidVars>>
    /\ UNCHANGED <<hid_mutex, dev_queue>>
    /\ UNCHANGED <<ctlVars, errVars, usbVars>>

\* sl3_hid_set_sample_rate, whole: the report goes out and the device's
\* answer arrives in time (0) or not (ETIMEDOUT).
RateHid_timeoutlocked(t) ==
    /\ pc[t] = "rate_hid" /\ hid_mutex = "free"
    /\ IF disconnected
       THEN /\ local' = [local EXCEPT ![t].err = "ENODEV"]
            /\ stream_mutex' = "free"
            /\ pc' = [pc EXCEPT ![t] = "rate_ret"]
            /\ obs' = [obs EXCEPT !.op = "step"]
            /\ UNCHANGED <<current_rate, hid_out_buf, hid_in_buf, hid_response_buf,
                           hid_response_done>>
       ELSE \E err \in {"0", "ETIMEDOUT"} :
            LET rate == local[t].rate
                answer == DeviceResponse(SL3_HID_CMD_SAMPLE_RATE, obs.sent + 1)
            IN  /\ hid_out_buf' = BuildReport(hid_out_buf, SL3_HID_CMD_SAMPLE_RATE,
                        [null |-> FALSE, data |-> <<(rate \div 256) % 256, rate % 256>>], 2)
                /\ hid_response_done' = 0
                /\ hid_in_buf' = IF err = "0" THEN answer ELSE hid_in_buf
                /\ hid_response_buf' = IF err = "0" THEN answer ELSE hid_response_buf
                /\ current_rate' = IF err = "0" THEN rate ELSE current_rate
                /\ local' = [local EXCEPT ![t].err = err]
                /\ stream_mutex' = stream_mutex
                /\ pc' = [pc EXCEPT ![t] = IF err = "0" THEN "rate_sleep" ELSE "rate_ret"]
                /\ obs' = [obs EXCEPT !.op = "rate_hid_sent", !.sent = @ + 1,
                                      !.ran = running[PLAYBACK] \/ running[CAPTURE]]
    /\ UNCHANGED <<sample_accumulator, feedback_samples, disconnected>>
    /\ UNCHANGED <<overload_status, phono_status, usb_port_status, hid_in_urb,
                   card, overload_ctl, phono_ctl>>
    /\ UNCHANGED <<strVars, pcmVars, bufVars, hid_mutex, dev_queue>>
    /\ UNCHANGED <<ctlVars, errVars, usbVars>>

RateHid(t) ==
    /\ pc[t] = "rate_hid" /\ hid_mutex = "free"
    /\ IF disconnected
       THEN /\ local' = [local EXCEPT ![t].err = "ENODEV"]
            /\ stream_mutex' = "free"
            /\ pc' = [pc EXCEPT ![t] = "rate_ret"]
            /\ obs' = [obs EXCEPT !.op = "step"]
            /\ UNCHANGED <<current_rate, hid_out_buf, hid_in_buf, hid_response_buf,
                           hid_response_done>>
       ELSE \E err \in {"0", "ETIMEDOUT"} :
            LET rate == local[t].rate
                answer == DeviceResponse(SL3_HID_CMD_SAMPLE_RATE, obs.sent + 1)
            IN  /\ hid_out_buf' = BuildReport(hid_out_buf, SL3_HID_CMD_SAMPLE_RATE,
                        [null |-> FALSE, data |-> <<(rate \div 256) % 256, rate % 256>>], 2)
                /\ hid_response_done' = 0
                /\ hid_in_buf' = IF err = "0" THEN answer ELSE hid_in_buf
                /\ hid_response_buf' = IF err = "0" THEN answer ELSE hid_response_buf
                /\ current_rate' = IF err = "0" THEN rate ELSE current_rate
                /\ local' = [local EXCEPT ![t].err = err]
                /\ stream_mutex' = IF err = "0" THEN stream_mutex ELSE "free"
                /\ pc' = [pc EXCEPT ![t] = IF err = "0" THEN "rate_sleep" ELSE "rate_ret"]
                /\ obs' = [obs EXCEPT !.op = "rate_hid_sent", !.sent = @ + 1,
                                      !.ran = running[PLAYBACK] \/ running[CAPTURE]]
    /\ UNCHANGED <<sample_accumulator, feedback_samples, disconnected>>
    /\ UNCHANGED <<overload_status, phono_status, usb_port_status, hid_in_urb,
                   card, overload_ctl, phono_ctl>>
    /\ UNCHANGED <<strVars, pcmVars, bufVars, hid_mutex, dev_queue>>
    /\ UNCHANGED <<ctlVars, errVars, usbVars>>

\* sl3_set_sample_rate after msleep(100): the accumulator, the unlock
RateSleepDone(t) ==
    /\ pc[t] = "rate_sleep"
    /\ sample_accumulator' = 0
    /\ stream_mutex' = "free"
    /\ pc' = [pc EXCEPT ![t] = "rate_ret"]
    /\ obs' = [obs EXCEPT !.op = "rate_acc_reset",
                          !.ran = running[PLAYBACK] \/ running[CAPTURE]]
    /\ UNCHANGED <<current_rate, feedback_samples, disconnected>>
    /\ UNCHANGED <<strVars, pcmVars, bufVars, hidVars, hid_mutex, local, dev_queue>>
    /\ UNCHANGED <<ctlVars, errVars, usbVars>>

\* sl3_set_sample_rate has returned: to sl3_rate_put, or to sl3_pcm_hw_params
\* and through it to the host, which configures the substream on success.
RateRet(t) ==
    /\ pc[t] = "rate_ret"
    /\ LET ok == local[t].err = "0"
       IN  IF t \in Streams
           THEN /\ pcm_state' = [pcm_state EXCEPT ![t] = IF ok THEN "setup" ELSE "open"]
                /\ period_size' = [period_size EXCEPT ![t] = IF ok THEN HostPeriodFrames ELSE 0]
                /\ buffer_size' = [buffer_size EXCEPT ![t] = IF ok THEN HostBufferFrames ELSE 0]
                /\ dma_area' = [dma_area EXCEPT ![t] =
                        IF ok THEN RingPattern(BufferBytes(HostBufferFrames)) ELSE <<>>]
                /\ local' = [local EXCEPT ![t].busy = FALSE, ![t].err = "none",
                                ![t].rate = 0,
                                ![t].rt_rate = IF ok THEN local[t].rate ELSE 0]
           ELSE /\ local' = [local EXCEPT ![t].busy = FALSE, ![t].err = "none",
                                ![t].rate = 0]
                /\ UNCHANGED <<pcmVars, dma_area>>
    /\ pc' = [pc EXCEPT ![t] = "idle"]
    /\ obs' = [obs EXCEPT !.op = "step"]
    /\ UNCHANGED <<cfgVars, strVars, urb_buffer, iso_length, hidVars>>
    /\ UNCHANGED <<stream_mutex, hid_mutex, dev_queue>>
    /\ UNCHANGED <<ctlVars, errVars, usbVars>>

\* sl3_pcm_prepare
PcmPrepare(s) ==
    /\ pc[s] = "idle" /\ CardOnline /\ pcm_state[s] \in {"setup", "prepared", "xrun"}
    /\ IF disconnected
       THEN UNCHANGED <<hwptr, transfer_done, pcm_state>>
       ELSE /\ hwptr' = [hwptr EXCEPT ![s] = 0]
            /\ transfer_done' = [transfer_done EXCEPT ![s] = 0]
            /\ pcm_state' = [pcm_state EXCEPT ![s] = "prepared"]
    /\ obs' = [obs EXCEPT !.op = "step"]
    /\ UNCHANGED <<cfgVars, running, substream, urb, period_size, buffer_size>>
    /\ UNCHANGED <<bufVars, hidVars, ctxVars>>
    /\ UNCHANGED <<ctlVars, errVars, usbVars>>

\* sl3_pcm_trigger(SNDRV_PCM_TRIGGER_START): what it returns
TriggerStartRet(s) ==
    IF disconnected THEN "ENODEV" ELSE IF UrbStart(s).ok THEN "0" ELSE "EIO"

\* sl3_pcm_trigger(SNDRV_PCM_TRIGGER_START): sl3_urb_start.  StartedBy(s) are
\* the streams the call has set running.
StartedBy(s) ==
    [t \in Streams |->
        ~disconnected /\ UrbStart(s).ok /\ (t = s \/ (UrbStart(s).implicit /\ t = CAPTURE))]
TriggerStart(s) ==
    /\ pc[s] = "idle" /\ CardOnline /\ pcm_state[s] = "prepared"
    /\ local[s].ops < MaxPcmOps(s)
    /\ IF disconnected
       THEN /\ UNCHANGED <<running, urb, sample_accumulator, urb_buffer, iso_length,
                           pcm_state>>
       ELSE LET r == UrbStart(s)
                fresh == r.prepared /\ s = PLAYBACK
            IN  /\ running' = r.running
                /\ urb' = r.urb
                /\ sample_accumulator' =
                        IF fresh THEN AccAfter(current_rate, 0, NumUrbs * SL3_ISO_PACKETS)
                        ELSE sample_accumulator
                /\ urb_buffer' = IF fresh
                                 THEN [urb_buffer EXCEPT ![s] = Bytes(SL3_URB_BUFFER_SIZE, 0)]
                                 ELSE urb_buffer
                /\ iso_length' =
                        IF fresh
                        THEN PreparedLengths(current_rate,
                                AccAfter(current_rate, 0, (NumUrbs - 1) * SL3_ISO_PACKETS),
                                SL3_ISO_PACKETS)
                        ELSE iso_length
                /\ pcm_state' = IF r.ok THEN [pcm_state EXCEPT ![s] = "running"]
                                ELSE pcm_state
    /\ local' = [local EXCEPT ![s].ops = @ + 1]
    /\ UNCHANGED <<current_rate, feedback_samples, disconnected>>
    /\ UNCHANGED <<substream, hwptr, transfer_done, period_size, buffer_size, dma_area>>
    /\ UNCHANGED <<hidVars, stream_mutex, hid_mutex, pc, dev_queue>>
    /\ UNCHANGED <<ctlVars, errVars, usbVars>>

PcmTriggerStart(s) ==
    /\ TriggerStart(s)
    /\ obs' = [obs EXCEPT !.op = "step",
                    !.stopped = [t \in Streams |-> obs.stopped[t] /\ ~StartedBy(s)[t]],
                    !.late = [t \in Streams |-> obs.late[t] /\ ~StartedBy(s)[t]]]

\* sl3_pcm_trigger(SNDRV_PCM_TRIGGER_STOP); the host leaves the running
\* state whatever the driver returns
PcmTriggerStop(s) ==
    /\ pc[s] = "idle" /\ pcm_state[s] = "running"
    /\ IF disconnected
       THEN /\ UNCHANGED running
            /\ obs' = [obs EXCEPT !.op = "step"]
       ELSE /\ running' = [t \in Streams |->
                    IF t = s THEN FALSE
                    ELSE IF s = PLAYBACK /\ running[CAPTURE] /\ ~substream[CAPTURE]
                         THEN FALSE ELSE running[t]]
            /\ obs' = [obs EXCEPT !.op = "step",
                                  !.stopped = [@ EXCEPT ![s] = TRUE]]
    /\ pcm_state' = [pcm_state EXCEPT ![s] = "setup"]
    /\ UNCHANGED <<cfgVars, substream, hwptr, transfer_done, urb, period_size, buffer_size>>
    /\ UNCHANGED <<bufVars, hidVars, ctxVars>>
    /\ UNCHANGED <<ctlVars, errVars, usbVars>>

\* sl3_urb_stop entered for stream s by context t, which goes on at `next`
\* after it: the running check, running = false
UrbStopBegin(t, s, next) ==
    IF ~running[s]
    THEN /\ pc' = [pc EXCEPT ![t] = next]
         /\ UNCHANGED <<running, local>>
    ELSE /\ running' = [running EXCEPT ![s] = FALSE]
         /\ pc' = [pc EXCEPT ![t] = "kill"]
         /\ local' = [local EXCEPT ![t].target = s, ![t].next = next]

\* sl3_urb_stop, the usb_kill_urb loop, which waits for a completion handler
\* in progress, and the stop of an implicit capture after it
UrbStopKill_anycapture(t) ==
    /\ pc[t] = "kill"
    /\ LET s == local[t].target
       IN  /\ \A i \in DOMAIN urb[s] : urb[s][i] \notin {"callback", "submit"}
           /\ urb' = [urb EXCEPT ![s] =
                        [i \in DOMAIN @ |-> IF @[i] = "inflight" THEN "idle" ELSE @[i]]]
           /\ IF s = PLAYBACK /\ running[CAPTURE]
              THEN /\ running' = [running EXCEPT ![CAPTURE] = FALSE]
                   /\ local' = [local EXCEPT ![t].target = CAPTURE]
                   /\ UNCHANGED pc
              ELSE /\ pc' = [pc EXCEPT ![t] = local[t].next]
                   /\ UNCHANGED <<running, local>>
    /\ obs' = [obs EXCEPT !.op = "step"]
    /\ UNCHANGED <<cfgVars, substream, hwptr, transfer_done, pcmVars, bufVars, hidVars>>
    /\ UNCHANGED <<stream_mutex, hid_mutex, dev_queue>>
    /\ UNCHANGED <<ctlVars, errVars, usbVars>>

UrbStopKill(t) ==
    /\ pc[t] = "kill"
    /\ LET s == local[t].target
       IN  /\ \A i \in DOMAIN urb[s] : urb[s][i] \notin {"callback", "submit"}
           /\ urb' = [urb EXCEPT ![s] =
                        [i \in DOMAIN @ |-> IF @[i] = "inflight" THEN "idle" ELSE @[i]]]
           /\ IF s = PLAYBACK /\ running[CAPTURE] /\ ~substream[CAPTURE]
              THEN /\ running' = [running EXCEPT ![CAPTURE] = FALSE]
                   /\ local' = [local EXCEPT ![t].target = CAPTURE]
                   /\ UNCHANGED pc
              ELSE /\ pc' = [pc EXCEPT ![t] = local[t].next]
                   /\ UNCHANGED <<running, local>>
    /\ obs' = [obs EXCEPT !.op = "step"]
    /\ UNCHANGED <<cfgVars, substream, hwptr, transfer_done, pcmVars, bufVars, hidVars>>
    /\ UNCHANGED <<stream_mutex, hid_mutex, dev_queue>>
    /\ UNCHANGED <<ctlVars, errVars, usbVars>>

\* sl3_pcm_close: sl3_urb_stop
PcmClose(s) ==
    /\ pc[s] = "idle" /\ pcm_state[s] \in {"open", "setup", "prepared"}
    /\ UrbStopBegin(s, s, "close_finish")
    /\ obs' = [obs EXCEPT !.op = "step"]
    /\ UNCHANGED <<cfgVars, substream, hwptr, transfer_done, urb, pcmVars, bufVars, hidVars>>
    /\ UNCHANGED <<stream_mutex, hid_mutex, dev_queue>>
    /\ UNCHANGED <<ctlVars, errVars, usbVars>>

\* sl3_pcm_close: stream->substream = NULL, return; the host frees the runtime
PcmCloseFinish(s) ==
    /\ pc[s] = "close_finish"
    /\ substream' = [substream EXCEPT ![s] = FALSE]
    /\ pcm_state' = [pcm_state EXCEPT ![s] = "closed"]
    /\ period_size' = [period_size EXCEPT ![s] = 0]
    /\ buffer_size' = [buffer_size EXCEPT ![s] = 0]
    /\ dma_area' = [dma_area EXCEPT ![s] = <<>>]
    /\ local' = [local EXCEPT ![s].rt_rate = 0]
    /\ pc' = [pc EXCEPT ![s] = "idle"]
    /\ obs' = [obs EXCEPT !.op = "step",
                          !.stopped = [@ EXCEPT ![s] = TRUE]]
    /\ UNCHANGED <<cfgVars, running, hwptr, transfer_done, urb, urb_buffer, iso_length>>
    /\ UNCHANGED <<hidVars, stream_mutex, hid_mutex, dev_queue>>
    /\ UNCHANGED <<ctlVars, errVars, usbVars>>

\* sl3_disconnect: dev->disconnected = true, snd_card_disconnect
UsbDisconnect ==
    /\ pc["usb"] = "idle"
    /\ disconnected' = TRUE
    /\ card_state' = "disconnected"
    /\ pc' = [pc EXCEPT !["usb"] = "stop_playback"]
    /\ obs' = [obs EXCEPT !.op = "step"]
    /\ UNCHANGED <<current_rate, sample_accumulator, feedback_samples>>
    /\ UNCHANGED <<strVars, pcmVars, bufVars, hidVars>>
    /\ UNCHANGED <<stream_mutex, hid_mutex, local, dev_queue>>
    /\ UNCHANGED <<ctlVars, errVars>>
    /\ UNCHANGED <<claimed, altsetting, intfdata, dev_mem, private_free>>

\* sl3_disconnect: sl3_urb_stop of playback, then of capture
UsbStop ==
    /\ pc["usb"] \in {"stop_playback", "stop_capture"}
    /\ IF pc["usb"] = "stop_playback"
       THEN UrbStopBegin("usb", PLAYBACK, "stop_capture")
       ELSE UrbStopBegin("usb", CAPTURE, "free")
    /\ obs' = [obs EXCEPT !.op = "step"]
    /\ UNCHANGED <<cfgVars, substream, hwptr, transfer_done, urb, pcmVars, bufVars, hidVars>>
    /\ UNCHANGED <<stream_mutex, hid_mutex, dev_queue>>
    /\ UNCHANGED <<ctlVars, errVars, usbVars>>

\* sl3_disconnect: sl3_urb_free of both streams, sl3_hid_cleanup, return
UsbFree ==
    /\ pc["usb"] = "free"
    /\ urb' = [s \in Streams |-> [i \in DOMAIN urb[s] |->
                    IF urb[s][i] \in {"inflight", "callback", "submit"}
                    THEN "freed_inflight"
                    ELSE "freed"]]
    /\ urb_buffer' = [s \in Streams |-> <<>>]
    /\ hid_in_urb' = "idle"
    /\ pc' = [pc EXCEPT !["usb"] = "gone"]
    /\ obs' = [obs EXCEPT !.op = "step",
                          !.stopped = [s \in Streams |-> TRUE]]
    /\ UNCHANGED <<cfgVars, running, substream, hwptr, transfer_done, pcmVars>>
    /\ UNCHANGED <<dma_area, iso_length>>
    /\ UNCHANGED <<hid_in_buf, hid_out_buf, hid_response_buf, hid_response_done,
                   overload_status, phono_status, usb_port_status, card, overload_ctl,
                   phono_ctl>>
    /\ UNCHANGED <<stream_mutex, hid_mutex, local, dev_queue>>
    /\ UNCHANGED <<ctlVars, errVars, usbVars>>

\* A completion handler is called: the switch on urb->status and the check
\* `if (!stream->running || dev->disconnected) return`.
UrbCompleteEnter(s, i) ==
    /\ urb[s][i] = "inflight"
    /\ \E status \in UrbStatuses :
        LET live == running[s] /\ ~disconnected IN
        /\ (status = "OK" /\ live) => obs.done[s] < MaxStreamCompletions
        /\ disconnected' = (disconnected \/ status = "ESHUTDOWN")
        /\ urb' = [urb EXCEPT ![s][i] =
                    IF status = "OK" THEN (IF live THEN "callback" ELSE "idle")
                    ELSE IF status = "EOVERFLOW" /\ live THEN "inflight" ELSE "idle"]
        /\ obs' = [obs EXCEPT !.op = "step"]
    /\ UNCHANGED <<current_rate, sample_accumulator, feedback_samples>>
    /\ UNCHANGED <<running, substream, hwptr, transfer_done, pcmVars, bufVars, hidVars, ctxVars>>
    /\ UNCHANGED <<ctlVars, errVars, usbVars>>

\* The handler past the check: the part under stream->lock, period-elapsed,
\* the resubmission.  With a substream whose period_size is 0 the period loop
\* does not end.
UrbCompleteBody(s, i) ==
    /\ urb[s][i] = "callback"
    /\ substream[s] => period_size[s] > 0
    /\ IF s = PLAYBACK
       THEN /\ PlaybackProcess
            /\ UNCHANGED <<feedback_samples, dma_area>>
       ELSE /\ \E f \in StreamCaptureFrames : CaptureProcess(ActualLengths(f, 0))
            /\ UNCHANGED <<sample_accumulator, urb_buffer, iso_length>>
    /\ urb' = [urb EXCEPT ![s][i] = IF running[s] /\ ~disconnected THEN "inflight" ELSE "idle"]
    /\ UNCHANGED <<current_rate, disconnected, running, substream>>
    /\ UNCHANGED <<pcmVars, hidVars, ctxVars>>
    /\ UNCHANGED <<ctlVars, errVars, usbVars>>

\* what the users of the substreams and the completion callbacks do
PcmNext ==
    \/ \E s \in Streams :
        \/ PcmOpen(s) \/ PcmHwParams(s) \/ PcmPrepare(s)
        \/ PcmTriggerStart(s) \/ PcmTriggerStop(s)
        \/ PcmClose(s) \/ PcmCloseFinish(s)
        \/ \E i \in 1..NumUrbs : UrbCompleteEnter(s, i) \/ UrbCompleteBody(s, i)
    \/ \E t \in StreamThreads :
        RateLock(t) \/ RateCheck(t) \/ RateHid(t) \/ RateSleepDone(t) \/ RateRet(t)
            \/ UrbStopKill(t)

(***************************************************************************)
(* SpecStream: the substreams are used and the device is unplugged.        *)
(* SpecSwitch: the substreams are used and the rate control is written.    *)
(***************************************************************************)
StreamNext == PcmNext \/ UsbDisconnect \/ UsbStop \/ UsbFree
SpecStream == StreamInit /\ [][StreamNext]_vars

SwitchNext == PcmNext \/ CtlRatePut
SpecSwitch == StreamInit /\ [][SwitchNext]_vars

\* C1: after a stop of a stream has returned (trigger STOP, close,
\* disconnect, sl3_urb_stop) none of its URBs is in flight and no later
\* completion callback changes its hwptr or transfer_done.
C1_StopDrains ==
    \A s \in Streams :
        obs.stopped[s] =>
            /\ \A i \in DOMAIN urb[s] : urb[s][i] \in {"idle", "freed"}
            /\ ~obs.late[s]

C3_SwitchExcludesStreaming ==
    obs.op \in {"rate_hid_sent", "rate_acc_reset"} => ~obs.ran

(***************************************************************************)
(* The control interface over the HID command path.  PutCallers are the    *)
(* contexts that write the Sample Rate and Output Source controls, set the *)
(* hardware parameters of a substream or query the phono switches; each    *)
(* goes through sl3_set_sample_rate, sl3_hid_set_routing or                *)
(* sl3_hid_query_phono a step per blocking point, and probe's handshake    *)
(* (sl3_hid_init) runs before any of them.  The streams are as Init finds  *)
(* them: both stopped, or playback running with its implicit capture.      *)
(***************************************************************************)
PutCallers == {"k1", "k2"}
MaxPuts == 2
pair_ids == <<SL3_PAIR_DECK_A, SL3_PAIR_DECK_B, SL3_PAIR_DECK_C>>

NoPut == [fn |-> "none", cmd |-> 0, payload |-> <<>>, wait |-> FALSE,
          rate |-> 0, tag |-> 0, err |-> "none", busy |-> FALSE,
          op |-> "none", idx |-> 0, val |-> 0, entry |-> 0, acc |-> 0,
          cur |-> 0, gone |-> FALSE, wrote |-> FALSE, step |-> 0]

PutInit ==
    /\ current_rate \in Rates
    /\ sample_accumulator \in (IF current_rate = 44100 THEN {0, 4100} ELSE {0})
    /\ feedback_samples = 0
    /\ disconnected = FALSE
    /\ \E streaming \in BOOLEAN :
        /\ running = [s \in Streams |-> streaming]
        /\ substream = [s \in Streams |-> streaming /\ s = PLAYBACK]
        /\ urb = [s \in Streams |->
                    [i \in 1..NumUrbs |-> IF streaming THEN "inflight" ELSE "idle"]]
        /\ pcm_state = [s \in Streams |->
                    IF streaming /\ s = PLAYBACK THEN "running" ELSE "closed"]
    /\ hwptr = [s \in Streams |-> 0]
    /\ transfer_done = [s \in Streams |-> 0]
    /\ period_size = [s \in Streams |-> 0]
    /\ buffer_size = [s \in Streams |-> 0]
    /\ BufQuiet /\ HidQuiet /\ ObsQuiet /\ CtlQuiet /\ UsbBound
    /\ error_retries = [s \in Streams |-> [i \in 1..NumUrbs |-> 0]]
    /\ play_underruns = 0
    /\ cap_overruns = 0
    /\ stream_mutex = "free"
    /\ hid_mutex = "free"
    /\ pc = [t \in PutCallers |-> "idle"]
    /\ local = [t \in PutCallers |-> NoPut]
    /\ dev_queue = <<>>

\* probe's handshake is over: the controls and the PCM exist
ProbeDone == \A u \in PutCallers : local[u].fn # "init"

\* .put of sl3_rate_ctl and sl3_route_ctls: the handlers are entered from the
\* control core's element write, one at a time for the card; PCM callbacks
\* and the phono query are not ordered with them
PutExclusive(t) ==
    \A u \in PutCallers \ {t} : local[u].op \notin {"rate_put", "route_put"}

\* what a call that has returned leaves for the observer
PutObs(call, ret) == [obs EXCEPT !.op = "put_return", !.put = call, !.ret = ret]

\* sl3_route_put up to the call of sl3_hid_set_routing, and the payload of
\* sl3_hid_set_routing
RoutePutCall(t) ==
    /\ pc[t] = "idle" /\ obs.puts < MaxPuts /\ ProbeDone /\ PutExclusive(t)
    /\ \E idx \in 0..2, val \in 0..2 :
        LET call == [NoPut EXCEPT !.op = "route_put", !.idx = idx, !.val = val,
                        !.entry = routing[idx], !.gone = disconnected]
        IN  IF val > 1
            THEN /\ obs' = [PutObs(call, "EINVAL") EXCEPT !.puts = @ + 1]
                 /\ UNCHANGED <<pc, local>>
            ELSE IF val = routing[idx]
            THEN /\ obs' = [PutObs(call, "0") EXCEPT !.puts = @ + 1]
                 /\ UNCHANGED <<pc, local>>
            ELSE /\ local' = [local EXCEPT ![t] =
                        [call EXCEPT !.fn = "set_routing", !.cmd = SL3_HID_CMD_ROUTING,
                            !.payload = <<pair_ids[idx + 1], 1, val>>, !.wait = FALSE]]
                 /\ pc' = [pc EXCEPT ![t] = "lock"]
                 /\ obs' = [obs EXCEPT !.op = "put_call", !.puts = @ + 1]
    /\ UNCHANGED <<cfgVars, strVars, pcmVars, bufVars, hidVars, ctlVars, errVars, usbVars>>
    /\ UNCHANGED <<stream_mutex, hid_mutex, dev_queue>>

\* sl3_rate_put up to the call of sl3_set_sample_rate
RatePutCall(t) ==
    /\ pc[t] = "idle" /\ obs.puts < MaxPuts /\ ProbeDone /\ PutExclusive(t)
    /\ \E new_rate \in Rates :
        LET call == [NoPut EXCEPT !.op = "rate_put", !.val = new_rate,
                        !.entry = current_rate, !.acc = sample_accumulator,
                        !.gone = disconnected]
        IN  IF new_rate = current_rate
            THEN /\ obs' = [PutObs(call, "0") EXCEPT !.puts = @ + 1]
                 /\ UNCHANGED <<pc, local>>
            ELSE /\ local' = [local EXCEPT ![t] = [call EXCEPT !.rate = new_rate]]
                 /\ pc' = [pc EXCEPT ![t] = "rate_lock"]
                 /\ obs' = [obs EXCEPT !.op = "put_call", !.puts = @ + 1]
    /\ UNCHANGED <<cfgVars, strVars, pcmVars, bufVars, hidVars, ctlVars, errVars, usbVars>>
    /\ UNCHANGED <<stream_mutex, hid_mutex, dev_queue>>

\* sl3_pcm_hw_params: the disconnected check, then sl3_set_sample_rate with
\* the rate asked for, whose first check refuses a rate it does not know
HwParamsCall(t) ==
    /\ pc[t] = "idle" /\ obs.puts < MaxPuts /\ ProbeDone
    /\ \E rate \in Rates \cup {BadRate} :
        LET call == [NoPut EXCEPT !.op = "hw_params", !.val = rate,
                        !.entry = current_rate, !.acc = sample_accumulator,
                        !.gone = disconnected]
        IN  IF disconnected
            THEN /\ obs' = [PutObs(call, "ENODEV") EXCEPT !.puts = @ + 1]
                 /\ UNCHANGED <<pc, local>>
            ELSE IF rate # 44100 /\ rate # 48000
            THEN /\ obs' = [PutObs(call, "EINVAL") EXCEPT !.puts = @ + 1]
                 /\ UNCHANGED <<pc, local>>
            ELSE /\ local' = [local EXCEPT ![t] = [call EXCEPT !.rate = rate]]
                 /\ pc' = [pc EXCEPT ![t] = "rate_lock"]
                 /\ obs' = [obs EXCEPT !.op = "put_call", !.puts = @ + 1]
    /\ UNCHANGED <<cfgVars, strVars, pcmVars, bufVars, hidVars, ctlVars, errVars, usbVars>>
    /\ UNCHANGED <<stream_mutex, hid_mutex, dev_queue>>

\* sl3_hid_query_phono is entered
QueryPhonoCall(t) ==
    /\ pc[t] = "idle" /\ obs.puts < MaxPuts /\ ProbeDone
    /\ local' = [local EXCEPT ![t] =
                    [NoPut EXCEPT !.op = "query_phono", !.fn = "query_phono",
                        !.cmd = SL3_HID_CMD_QUERY_PHONO, !.wait = TRUE,
                        !.gone = disconnected]]
    /\ pc' = [pc EXCEPT ![t] = "lock"]
    /\ obs' = [obs EXCEPT !.op = "put_call", !.puts = @ + 1]
    /\ UNCHANGED <<cfgVars, strVars, pcmVars, bufVars, hidVars, ctlVars, errVars, usbVars>>
    /\ UNCHANGED <<stream_mutex, hid_mutex, dev_queue>>

\* sl3_hid_init, from probe, before anything else can call in: the first
\* command of the handshake
HidInitCall(t) ==
    /\ obs.puts = 0 /\ \A u \in PutCallers : pc[u] = "idle"
    /\ local' = [local EXCEPT ![t] =
                    [NoPut EXCEPT !.op = "init", !.fn = "init", !.step = 1,
                        !.cmd = SL3_HID_CMD_INIT, !.payload = <<0>>, !.wait = TRUE]]
    /\ pc' = [pc EXCEPT ![t] = "lock"]
    /\ obs' = [obs EXCEPT !.op = "put_call", !.puts = @ + 1]
    /\ UNCHANGED <<cfgVars, strVars, pcmVars, bufVars, hidVars, ctlVars, errVars, usbVars>>
    /\ UNCHANGED <<stream_mutex, hid_mutex, dev_queue>>

\* sl3_hid_init: the next command of the handshake after the one that has
\* returned, each whatever the last returned; the phono cache after the
\* fourth; mutex_unlock
HidInitNext(t) ==
    /\ pc[t] = "unlock" /\ local[t].fn = "init"
    /\ LET k == local[t].step IN
       IF k < 4
       THEN /\ local' = [local EXCEPT ![t].step = k + 1,
                    ![t].cmd = IF k = 1 THEN SL3_HID_CMD_STATUS
                               ELSE IF k = 2 THEN SL3_HID_CMD_SAMPLE_RATE
                               ELSE SL3_HID_CMD_QUERY_PHONO,
                    ![t].payload = IF k = 1 THEN <<1>>
                                   ELSE IF k = 2 THEN <<(current_rate \div 256) % 256,
                                                        current_rate % 256>>
                                   ELSE <<>>]
            /\ pc' = [pc EXCEPT ![t] = "build"]
            /\ obs' = [obs EXCEPT !.op = "init_next"]
            /\ UNCHANGED <<hid_mutex, phono_status>>
       ELSE /\ phono_status' = IF local[t].err = "0" THEN Slice(hid_response_buf, 5, 3)
                               ELSE phono_status
            /\ hid_mutex' = "free"
            /\ local' = [local EXCEPT ![t] = NoPut]
            /\ pc' = [pc EXCEPT ![t] = "idle"]
            /\ obs' = PutObs(local[t], "0")
    /\ UNCHANGED <<hid_in_buf, hid_out_buf, hid_response_buf, hid_response_done,
                   overload_status, usb_port_status, hid_in_urb, card, overload_ctl,
                   phono_ctl>>
    /\ UNCHANGED <<cfgVars, strVars, pcmVars, bufVars, ctlVars, errVars, usbVars>>
    /\ UNCHANGED <<stream_mutex, dev_queue>>

\* sl3_set_sample_rate calls sl3_hid_set_sample_rate: the rate check, the
\* payload.  cur and acc are the rate and the accumulator as the call found
\* them under stream_mutex.
RateHidCall(t) ==
    /\ pc[t] = "rate_hid"
    /\ local' = [local EXCEPT ![t].fn = "set_sample_rate",
                    ![t].cmd = SL3_HID_CMD_SAMPLE_RATE,
                    ![t].payload = <<(local[t].rate \div 256) % 256, local[t].rate % 256>>,
                    ![t].wait = TRUE,
                    ![t].cur = current_rate, ![t].acc = sample_accumulator]
    /\ pc' = [pc EXCEPT ![t] = "lock"]
    /\ obs' = [obs EXCEPT !.op = "step"]
    /\ UNCHANGED <<cfgVars, strVars, pcmVars, bufVars, hidVars, ctlVars, errVars, usbVars>>
    /\ UNCHANGED <<stream_mutex, hid_mutex, dev_queue>>

\* sl3_hid_set_sample_rate after sl3_hid_send_cmd_locked: current_rate on
\* success, mutex_unlock, return to sl3_set_sample_rate
HidRateReturn(t) ==
    /\ pc[t] = "unlock" /\ local[t].fn = "set_sample_rate"
    /\ current_rate' = IF local[t].err = "0" THEN local[t].rate ELSE current_rate
    /\ local' = [local EXCEPT ![t].wrote = local[t].err = "0"]
    /\ hid_mutex' = "free"
    /\ pc' = [pc EXCEPT ![t] = "rate_after"]
    /\ obs' = [obs EXCEPT !.op = "step"]
    /\ UNCHANGED <<sample_accumulator, feedback_samples, disconnected>>
    /\ UNCHANGED <<strVars, pcmVars, bufVars, hidVars, ctlVars, errVars, usbVars>>
    /\ UNCHANGED <<stream_mutex, dev_queue>>

\* sl3_set_sample_rate after sl3_hid_set_sample_rate: on an error the
\* unlock and the return, else msleep(100)
RateAfter_ignore(t) ==
    /\ pc[t] = "rate_after"
    /\ pc' = [pc EXCEPT ![t] = "rate_sleep"]
    /\ obs' = [obs EXCEPT !.op = "step"]
    /\ UNCHANGED <<cfgVars, strVars, pcmVars, bufVars, hidVars, ctlVars, errVars, usbVars>>
    /\ UNCHANGED <<stream_mutex, hid_mutex, local, dev_queue>>

RateAfter(t) ==
    /\ pc[t] = "rate_after"
    /\ IF local[t].err # "0"
       THEN /\ stream_mutex' = "free"
            /\ pc' = [pc EXCEPT ![t] = "rate_ret"]
       ELSE /\ pc' = [pc EXCEPT ![t] = "rate_sleep"]
            /\ UNCHANGED stream_mutex
    /\ obs' = [obs EXCEPT !.op = "step"]
    /\ UNCHANGED <<cfgVars, strVars, pcmVars, bufVars, hidVars, ctlVars, errVars, usbVars>>
    /\ UNCHANGED <<hid_mutex, local, dev_queue>>

\* sl3_set_sample_rate has returned err: sl3_pcm_hw_params returns it,
\* sl3_rate_put returns it or 1
RateReturn(t) ==
    /\ pc[t] = "rate_ret"
    /\ local' = [local EXCEPT ![t] = NoPut]
    /\ pc' = [pc EXCEPT ![t] = "idle"]
    /\ obs' = PutObs(local[t], IF local[t].op = "rate_put" /\ local[t].err = "0"
                               THEN "1" ELSE local[t].err)
    /\ UNCHANGED <<cfgVars, strVars, pcmVars, bufVars, hidVars, ctlVars, errVars, usbVars>>
    /\ UNCHANGED <<stream_mutex, hid_mutex, dev_queue>>

\* sl3_hid_set_routing after sl3_hid_send_cmd_locked: mutex_unlock, return
HidRoutingReturn(t) ==
    /\ pc[t] = "unlock" /\ local[t].fn = "set_routing"
    /\ hid_mutex' = "free"
    /\ pc' = [pc EXCEPT ![t] = "route_after"]
    /\ obs' = [obs EXCEPT !.op = "step"]
    /\ UNCHANGED <<cfgVars, strVars, pcmVars, bufVars, hidVars, ctlVars, errVars, usbVars>>
    /\ UNCHANGED <<stream_mutex, local, dev_queue>>

\* sl3_route_put after sl3_hid_set_routing: the error, or the cache and 1
RouteAfter_nocheck(t) ==
    /\ pc[t] = "route_after"
    /\ routing' = [routing EXCEPT ![local[t].idx] = local[t].val]
    /\ obs' = [PutObs([local[t] EXCEPT !.wrote = TRUE], "1") EXCEPT !.pre = routing]
    /\ local' = [local EXCEPT ![t] = NoPut]
    /\ pc' = [pc EXCEPT ![t] = "idle"]
    /\ UNCHANGED <<cfgVars, strVars, pcmVars, bufVars, hidVars, errVars, usbVars>>
    /\ UNCHANGED <<stream_mutex, hid_mutex, dev_queue>>

RouteAfter(t) ==
    /\ pc[t] = "route_after"
    /\ IF local[t].err # "0"
       THEN /\ obs' = [PutObs(local[t], local[t].err) EXCEPT !.pre = routing]
            /\ UNCHANGED routing
       ELSE /\ routing' = [routing EXCEPT ![local[t].idx] = local[t].val]
            /\ obs' = [PutObs([local[t] EXCEPT !.wrote = TRUE], "1") EXCEPT !.pre = routing]
    /\ local' = [local EXCEPT ![t] = NoPut]
    /\ pc' = [pc EXCEPT ![t] = "idle"]
    /\ UNCHANGED <<cfgVars, strVars, pcmVars, bufVars, hidVars, errVars, usbVars>>
    /\ UNCHANGED <<stream_mutex, hid_mutex, dev_queue>>

\* sl3_hid_query_phono after sl3_hid_send_cmd_locked: the phono cache on
\* success, mutex_unlock, return
HidPhonoReturn(t) ==
    /\ pc[t] = "unlock" /\ local[t].fn = "query_phono"
    /\ phono_status' = IF local[t].err = "0" THEN Slice(hid_response_buf, 5, 3)
                       ELSE phono_status
    /\ hid_mutex' = "free"
    /\ local' = [local EXCEPT ![t] = NoPut]
    /\ pc' = [pc EXCEPT ![t] = "idle"]
    /\ obs' = PutObs(local[t], local[t].err)
    /\ UNCHANGED <<hid_in_buf, hid_out_buf, hid_response_buf, hid_response_done,
                   overload_status, usb_port_status, hid_in_urb, card, overload_ctl,
                   phono_ctl>>
    /\ UNCHANGED <<cfgVars, strVars, pcmVars, bufVars, ctlVars, errVars, usbVars>>
    /\ UNCHANGED <<stream_mutex, dev_queue>>

PutNext ==
    \/ \E t \in PutCallers :
        \/ RoutePutCall(t) \/ RatePutCall(t) \/ HwParamsCall(t) \/ QueryPhonoCall(t)
        \/ HidInitCall(t) \/ HidInitNext(t)
        \/ RateLock(t) \/ RateCheck(t) \/ RateHidCall(t)
        \/ HidLock(t) \/ HidBuild(t) \/ HidSendOk(t) \/ HidSendFail(t)
        \/ HidWaitDone(t) \/ HidWaitTimeout(t)
        \/ HidRateReturn(t) \/ RateAfter(t) \/ RateSleepDone(t) \/ RateReturn(t)
        \/ HidRoutingReturn(t) \/ RouteAfter(t) \/ HidPhonoReturn(t)
    \/ HidInDeliver
    \/ HidInGone
SpecPut == PutInit /\ [][PutNext]_vars

\* the report sl3_hid_build_report leaves in the OUT buffer for the command
\* a caller is sending
ReportOfCall(t) ==
    BuildReport(hid_out_buf, local[t].cmd, [null |-> FALSE, data |-> local[t].payload],
                Len(local[t].payload))
\* a caller is past mutex_lock in one of the command functions and has not
\* unlocked yet
InHidCommand(t) == pc[t] \in {"build", "send", "wait", "unlock"}

\* C11: from the build of a command's report to the end of its wait the
\* caller owns the HID path: no other command (rate change, routing put,
\* phono query, init handshake) is past the lock, so none writes the OUT
\* buffer, resets the mailbox or issues an OUT transfer, and the OUT buffer
\* still holds this command's report.
C11_HidCommandsSerialised ==
    \A t \in PutCallers :
        pc[t] \in {"send", "wait"} =>
            /\ hid_mutex = t
            /\ hid_out_buf = ReportOfCall(t)
            /\ \A u \in PutCallers \ {t} : ~InHidCommand(u)
C11_Witness ==
    \E t \in PutCallers, u \in PutCallers :
        /\ pc[t] = "wait" /\ local[t].fn = "set_sample_rate"
        /\ pc[u] = "lock" /\ local[u].fn = "set_routing"

\* C12: an operation entered with disconnected already true (here: Sample
\* Rate put, Output Source put, hw_params with its rate change, a phono
\* query) returns the not-present error.
C12_GoneReturnsNoDevice ==
    (obs.op = "put_return" /\ obs.put.gone) => obs.ret = "ENODEV"

\* C16: a rate change that passed the checks of sl3_set_sample_rate (a
\* different valid rate, both streams stopped) is all or nothing.  When the
\* command was acknowledged the call leaves the mutex with current_rate the
\* requested rate and the accumulator 0; when the command failed, timed out
\* or found the device disconnected it leaves with current_rate and the
\* accumulator as it found them, and the caller gets that error; a rate
\* that is neither 44100 nor 48000 is refused with EINVAL and no HID command
\* is entered, the OUT buffer and the count of reports sent stay as they are.
C16_RateChangeAllOrNothing ==
    [][\A t \in PutCallers :
        /\ (pc[t] = "rate_sleep" /\ pc'[t] = "rate_ret") =>
                /\ local[t].err = "0" /\ local[t].cur # local[t].rate
                /\ current_rate' = local[t].rate
                /\ sample_accumulator' = 0
        /\ (pc[t] = "rate_after" /\ pc'[t] = "rate_ret") =>
                /\ local[t].err \in {"EIO", "ETIMEDOUT", "ENODEV"}
                /\ current_rate' = local[t].cur
                /\ sample_accumulator' = local[t].acc
        /\ (pc[t] = "rate_ret" /\ pc'[t] = "idle" /\ local[t].fn = "set_sample_rate") =>
                obs'.ret = IF local[t].err # "0" THEN local[t].err
                           ELSE IF local[t].op = "rate_put" THEN "1" ELSE "0"
        /\ (obs'.puts # obs.puts /\ obs'.op = "put_return"
                /\ obs'.put.op = "hw_params" /\ obs'.put.val \notin Rates
                /\ ~obs'.put.gone) =>
                /\ obs'.ret = "EINVAL"
                /\ obs'.sent = obs.sent /\ hid_out_buf' = hid_out_buf
                /\ current_rate' = current_rate
                /\ sample_accumulator' = sample_accumulator
                /\ pc' = pc
      ]_vars
C16_Witness ==
    /\ obs.op = "put_return" /\ obs.put.op = "rate_put" /\ obs.ret = "1"
    /\ obs.put.fn = "set_sample_rate" /\ obs.put.acc # 0
    /\ current_rate = obs.put.rate /\ sample_accumulator = 0

\* C17: a routing put for deck idx.  A value above 1 returns EINVAL, a
\* value equal to routing[idx] returns 0, and neither enters a HID command
\* or touches the cache.  Any other put sends exactly one report: the one
\* OUT transfer of its sl3_hid_set_routing carries code 0x33 and payload
\* {pair id of the deck, 0x01, value} and is not followed by a wait; after a
\* successful send routing[idx] becomes the value and the other two entries
\* stay, after a failed send the cache stays.  routing[idx] is 0 or 1 in
\* every reachable state.
C17_RoutingPut ==
    /\ [](\A idx \in 0..2 : routing[idx] \in {0, 1})
    /\ [][\A t \in PutCallers :
        /\ (obs'.puts # obs.puts /\ obs'.op = "put_return" /\ obs'.put.op = "route_put") =>
                /\ obs'.ret = IF obs'.put.val > 1 THEN "EINVAL" ELSE "0"
                /\ obs'.put.val > 1 \/ obs'.put.val = routing[obs'.put.idx]
                /\ routing' = routing /\ obs'.sent = obs.sent
                /\ hid_out_buf' = hid_out_buf /\ pc' = pc
        /\ (local[t].op = "route_put" /\ pc'[t] # pc[t]) =>
                /\ local[t].val \in {0, 1}
                /\ local[t].val # local[t].entry
                /\ obs'.sent # obs.sent =>
                    /\ pc[t] = "send" /\ pc'[t] = "unlock"
                    /\ obs'.sent = obs.sent + 1
                    /\ At(hid_out_buf, 0) = 51
                    /\ Slice(hid_out_buf, 5, 3) =
                            <<IF local[t].idx = 0 THEN 8
                              ELSE IF local[t].idx = 1 THEN 14 ELSE 20,
                              1, local[t].val>>
                    /\ \A k \in 8..(SL3_HID_REPORT_SIZE - 1) : At(hid_out_buf, k) = 0
                /\ pc[t] = "route_after" =>
                    /\ local[t].err = "0" =>
                        /\ routing' = [routing EXCEPT ![local[t].idx] = local[t].val]
                        /\ obs'.ret = "1"
                    /\ local[t].err # "0" =>
                        /\ routing' = routing
                        /\ obs'.ret = local[t].err
                /\ pc[t] # "route_after" => routing' = routing
      ]_vars
C17_Witness ==
    /\ obs.op = "put_return" /\ obs.put.op = "route_put" /\ obs.ret = "1"
    /\ obs.put.idx = 2 /\ obs.put.val = SL3_ROUTE_ANALOG
    /\ routing = [idx \in 0..2 |-> IF idx = 2 THEN SL3_ROUTE_ANALOG ELSE SL3_ROUTE_USB]
    /\ obs.sent = 1

\* C18: a Sample Rate or Output Source put returns 1 if and only if this
\* write changed the cached value (current_rate or routing[idx]); it returns
\* 0 when the written value is the cached one, and otherwise an error with
\* no write to the cache.
C18_ChangedIffWrote ==
    (obs.op = "put_return" /\ obs.put.op \in {"rate_put", "route_put"}) =>
        /\ obs.ret = "1" <=> obs.put.wrote
        /\ obs.ret = "0" => obs.put.val = obs.put.entry
        /\ obs.ret \notin {"0", "1"} => ~obs.put.wrote

(***************************************************************************)
(* SpecErr: the isochronous completion handlers with every status they     *)
(* switch on, while the streams run, are stopped and restarted and the     *)
(* device is unplugged.  A handler is followed to the place where it calls *)
(* usb_submit_urb: urb[s][i] = "submit" is a handler that has passed       *)
(* `if (stream->running && !dev->disconnected)` and has not yet submitted. *)
(* The run begins with streams running: playback with the capture it       *)
(* started (no capture substream, or one that is prepared and not yet      *)
(* triggered), or capture alone; the user of an open substream has one     *)
(* start left.                                                             *)
(***************************************************************************)
MaxErrCompletions == 3
IsoStatuses == {"OK", "ENOENT", "ECONNRESET", "ESHUTDOWN", "EOVERFLOW", "EPIPE", "EPROTO"}
GoneStatuses == {"OK", "ESHUTDOWN"}
ErrSetups == {"playback", "playback_capture_open", "capture"}

ErrInit ==
    /\ current_rate = 44100
    /\ sample_accumulator = AccAfter(current_rate, 0, NumUrbs * SL3_ISO_PACKETS)
    /\ feedback_samples = 0
    /\ disconnected = FALSE
    /\ \E setup \in ErrSetups :
        LET open == [s \in Streams |->
                        IF s = PLAYBACK THEN setup # "capture" ELSE setup # "playback"]
        IN  /\ running = [s \in Streams |-> s = CAPTURE \/ setup # "capture"]
            /\ substream = open
            /\ urb = [s \in Streams |-> [i \in 1..NumUrbs |->
                        IF s = CAPTURE \/ setup # "capture" THEN "inflight" ELSE "idle"]]
            /\ pcm_state = [s \in Streams |->
                        IF ~open[s] THEN "closed"
                        ELSE IF s = CAPTURE /\ setup # "capture" THEN "prepared"
                        ELSE "running"]
            /\ period_size = [s \in Streams |-> IF open[s] THEN HostPeriodFrames ELSE 0]
            /\ buffer_size = [s \in Streams |-> IF open[s] THEN HostBufferFrames ELSE 0]
            /\ dma_area = [s \in Streams |->
                        IF open[s] THEN RingPattern(BufferBytes(HostBufferFrames)) ELSE <<>>]
            /\ local = [t \in StreamThreads |->
                        IF t \in Streams /\ open[t]
                        THEN [NoStreamCall EXCEPT !.rt_rate = current_rate,
                                                  !.ops = MaxPcmOps(t) - 1]
                        ELSE NoStreamCall]
    /\ hwptr = [s \in Streams |-> 0]
    /\ transfer_done = [s \in Streams |-> 0]
    /\ urb_buffer = [s \in Streams |-> Bytes(SL3_URB_BUFFER_SIZE, 0)]
    /\ iso_length = PreparedLengths(current_rate,
                        AccAfter(current_rate, 0, (NumUrbs - 1) * SL3_ISO_PACKETS),
                        SL3_ISO_PACKETS)
    /\ HidQuiet
    /\ stream_mutex = "free"
    /\ hid_mutex = "free"
    /\ pc = [t \in StreamThreads |-> "idle"]
    /\ dev_queue = <<>>
    /\ ObsQuiet /\ CtlQuiet /\ UsbBound
    /\ error_retries = [s \in Streams |-> [i \in 1..NumUrbs |-> 0]]
    /\ play_underruns = 0
    /\ cap_overruns = 0

\* `++ctx->error_retries >= SL3_URB_MAX_RETRIES`, n the incremented counter
RetriesExhausted(n) == n >= SL3_URB_MAX_RETRIES

\* the switch on urb->status of sl3_playback_complete and
\* sl3_capture_complete: the retry counter it leaves, whether it sets
\* disconnected, and where it goes: on to the running check ("check"), to
\* the resubmit label ("resubmit"), out ("return"), or out by the branch
\* that gives the URB up ("abandon")
IsoStatusSwitch_stallcounts(status, retries) ==
    IF status = "OK" THEN [retries |-> 0, gone |-> FALSE, go |-> "check"]
    ELSE IF status \in {"ENOENT", "ECONNRESET"}
    THEN [retries |-> retries, gone |-> FALSE, go |-> "return"]
    ELSE IF status = "ESHUTDOWN" THEN [retries |-> retries, gone |-> TRUE, go |-> "return"]
    ELSE IF status = "EOVERFLOW"
    THEN [retries |-> retries, gone |-> FALSE, go |-> "resubmit"]
    ELSE IF RetriesExhausted(retries + 1)
    THEN [retries |-> retries + 1, gone |-> FALSE, go |-> "abandon"]
    ELSE [retries |-> retries + 1, gone |-> FALSE, go |-> "resubmit"]

IsoStatusSwitch(status, retries) ==
    IF status = "OK" THEN [retries |-> 0, gone |-> FALSE, go |-> "check"]
    ELSE IF status \in {"ENOENT", "ECONNRESET"}
    THEN [retries |-> retries, gone |-> FALSE, go |-> "return"]
    ELSE IF status = "ESHUTDOWN" THEN [retries |-> retries, gone |-> TRUE, go |-> "return"]
    ELSE IF status \in {"EOVERFLOW", "EPIPE"}
    THEN [retries |-> retries, gone |-> FALSE, go |-> "resubmit"]
    ELSE IF RetriesExhausted(retries + 1)
    THEN [retries |-> retries + 1, gone |-> FALSE, go |-> "abandon"]
    ELSE [retries |-> retries + 1, gone |-> FALSE, go |-> "resubmit"]

\* running after the host's stop of substream s: sl3_pcm_trigger(STOP),
\* which does nothing on a disconnected device
AfterTriggerStop(s) ==
    IF disconnected THEN running
    ELSE [t \in Streams |->
            IF t = s THEN FALSE
            ELSE IF s = PLAYBACK /\ running[CAPTURE] /\ ~substream[CAPTURE]
                 THEN FALSE ELSE running[t]]

\* A completion handler is called with a status: the switch, and then the
\* test it goes to, `if (!stream->running || dev->disconnected) return` for
\* status 0 or `if (stream->running && !dev->disconnected)` at the resubmit
\* label.  snd_pcm_stop_xrun stops a PCM that is running (state xrun,
\* trigger STOP) and leaves any other alone.
IsoCompletion(s, i, status) ==
    /\ urb[s][i] = "inflight"
    /\  LET sw == IsoStatusSwitch(status, error_retries[s][i])
            live == running[s] /\ ~disconnected
            sub == sw.go = "abandon" /\ substream[s]
            xrun == sub /\ pcm_state[s] = "running"
        IN  /\ IF status = "OK" THEN live => obs.done[s] < MaxStreamCompletions
               ELSE obs.calls < MaxErrCompletions
            /\ error_retries' = [error_retries EXCEPT ![s][i] = sw.retries]
            /\ disconnected' = (disconnected \/ sw.gone)
            /\ play_underruns' = IF sub /\ s = PLAYBACK THEN play_underruns + 1
                                 ELSE play_underruns
            /\ cap_overruns' = IF sub /\ s = CAPTURE THEN cap_overruns + 1
                               ELSE cap_overruns
            /\ pcm_state' = IF xrun THEN [pcm_state EXCEPT ![s] = "xrun"] ELSE pcm_state
            /\ running' = IF xrun THEN AfterTriggerStop(s) ELSE running
            /\ urb' = [urb EXCEPT ![s][i] =
                        IF sw.go = "check" /\ live THEN "callback"
                        ELSE IF sw.go = "resubmit" /\ live THEN "submit"
                        ELSE "idle"]
            /\ obs' = [obs EXCEPT !.op = "iso_complete",
                            !.calls = IF status = "OK" THEN @ ELSE @ + 1]
    /\ UNCHANGED <<current_rate, sample_accumulator, feedback_samples>>
    /\ UNCHANGED <<substream, hwptr, transfer_done, period_size, buffer_size>>
    /\ UNCHANGED <<bufVars, hidVars, ctxVars, ctlVars, usbVars>>

IsoComplete(s, i) == \E status \in IsoStatuses : IsoCompletion(s, i, status)
\* the same on a device that works until it is unplugged
IsoCompleteGone(s, i) == \E status \in GoneStatuses : IsoCompletion(s, i, status)

\* The handler of a successful URB past the running check: the part under
\* stream->lock, period-elapsed, and the test at the resubmit label
IsoProcess(s, i) ==
    /\ urb[s][i] = "callback"
    /\ substream[s] => period_size[s] > 0
    /\ IF s = PLAYBACK
       THEN /\ PlaybackProcess
            /\ UNCHANGED <<feedback_samples, dma_area>>
       ELSE /\ \E f \in StreamCaptureFrames : CaptureProcess(ActualLengths(f, 0))
            /\ UNCHANGED <<sample_accumulator, urb_buffer, iso_length>>
    /\ urb' = [urb EXCEPT ![s][i] = IF running[s] /\ ~disconnected THEN "submit" ELSE "idle"]
    /\ UNCHANGED <<current_rate, disconnected, running, substream>>
    /\ UNCHANGED <<pcmVars, hidVars, ctxVars>>
    /\ UNCHANGED <<ctlVars, errVars, usbVars>>

\* usb_submit_urb at the resubmit label.  obs.late_submit records a submit
\* made when disconnected was true.
IsoResubmit(s, i) ==
    /\ urb[s][i] = "submit"
    /\ urb' = [urb EXCEPT ![s][i] = "inflight"]
    /\ obs' = [obs EXCEPT !.op = "iso_submit",
                          !.late_submit = @ \/ disconnected]
    /\ UNCHANGED <<cfgVars, running, substream, hwptr, transfer_done>>
    /\ UNCHANGED <<pcmVars, bufVars, hidVars, ctxVars>>
    /\ UNCHANGED <<ctlVars, errVars, usbVars>>

ErrNext ==
    \E s \in Streams :
        \/ PcmTriggerStart(s) \/ PcmTriggerStop(s) \/ PcmPrepare(s)
        \/ \E i \in 1..NumUrbs : IsoComplete(s, i) \/ IsoProcess(s, i) \/ IsoResubmit(s, i)
SpecErr == ErrInit /\ [][ErrNext]_vars

\* SpecGone: the streams run and the device is unplugged
GoneNext ==
    \/ \E s \in Streams, i \in 1..NumUrbs :
        IsoCompleteGone(s, i) \/ IsoProcess(s, i) \/ IsoResubmit(s, i)
    \/ UsbDisconnect \/ UsbStop \/ UrbStopKill("usb") \/ UsbFree
SpecGone == ErrInit /\ [][GoneNext]_vars

\* C13: no isochronous URB is handed to usb_submit_urb in a state where
\* disconnected is already true, however completion handlers and the
\* disconnect interleave.
C13_NoSubmitWhenGone == ~obs.late_submit

\* the underruns counted for playback, the overruns counted for capture
XrunCount(s) == IF s = PLAYBACK THEN play_underruns ELSE cap_overruns

\* C14: the third consecutive 'other' error of an URB with no success in
\* between records one underrun (playback) or overrun (capture), puts a
\* running host PCM of the stream into xrun and does not resubmit the URB;
\* the first and the second take the URB to the resubmit site, where it is
\* submitted if the stream is running and the device not disconnected; a
\* success resets the URB's counter to 0.
C14_ThirdErrorXrun ==
    [][\A s \in Streams, i \in 1..NumUrbs :
        /\ IsoCompletion(s, i, "EPROTO") =>
            /\ error_retries[s][i] = 2 =>
                /\ XrunCount(s)' = XrunCount(s) + 1
                /\ pcm_state[s] = "running" => pcm_state'[s] = "xrun"
                /\ urb'[s][i] = "idle"
            /\ error_retries[s][i] < 2 =>
                urb'[s][i] = IF running[s] /\ ~disconnected THEN "submit" ELSE "idle"
        /\ IsoCompletion(s, i, "OK") => error_retries'[s][i] = 0
      ]_vars

\* C15: a completion with -ENOENT or -ECONNRESET changes nothing of the
\* driver and the URB is not resubmitted; with -ESHUTDOWN it sets
\* disconnected, changes nothing else and the URB is not resubmitted; with
\* -EPIPE or -EOVERFLOW the URB goes to usb_submit_urb if the stream is
\* running and the device not disconnected, and hwptr, transfer_done,
\* feedback_samples and the retry counters stay.
C15_StatusHandling ==
    [][\A s \in Streams, i \in 1..NumUrbs :
        /\ (IsoCompletion(s, i, "ENOENT") \/ IsoCompletion(s, i, "ECONNRESET")) =>
            /\ urb' = [urb EXCEPT ![s][i] = "idle"]
            /\ UNCHANGED <<cfgVars, running, substream, hwptr, transfer_done>>
            /\ UNCHANGED <<pcmVars, bufVars, errVars>>
        /\ IsoCompletion(s, i, "ESHUTDOWN") =>
            /\ disconnected'
            /\ urb' = [urb EXCEPT ![s][i] = "idle"]
            /\ UNCHANGED <<current_rate, sample_accumulator, feedback_samples>>
            /\ UNCHANGED <<running, substream, hwptr, transfer_done>>
            /\ UNCHANGED <<pcmVars, bufVars, errVars>>
        /\ (IsoCompletion(s, i, "EPIPE") \/ IsoCompletion(s, i, "EOVERFLOW")) =>
            /\ urb' = [urb EXCEPT ![s][i] =
                        IF running[s] /\ ~disconnected THEN "submit" ELSE "idle"]
            /\ UNCHANGED <<hwptr, transfer_done, feedback_samples, error_retries>>
      ]_vars
C15_Witness ==
    /\ obs.op = "iso_complete" /\ obs.calls = 2
    /\ urb[CAPTURE][1] = "submit" /\ urb[PLAYBACK][1] = "idle"
    /\ running[PLAYBACK] /\ ~disconnected
    /\ error_retries = [s \in Streams |-> [i \in 1..NumUrbs |-> 0]]

\* C20 as stated: a start on a stream whose running flag is true returns 0,
\* submits and prepares no URB and leaves the accumulator, hwptr and
\* transfer_done as they are.
C20_StartIdempotent ==
    [][\A s \in Streams :
        (TriggerStart(s) /\ running[s]) =>
            /\ TriggerStartRet(s) = "0"
            /\ UNCHANGED <<urb, urb_buffer, iso_length, sample_accumulator, hwptr,
                           transfer_done>>
      ]_vars

\* C20: the same on a device that is not disconnected; on a disconnected
\* one the start returns ENODEV, and likewise touches nothing.
C20_StartIdempotentOnline ==
    [][\A s \in Streams :
        (TriggerStart(s) /\ running[s]) =>
            /\ TriggerStartRet(s) = IF disconnected THEN "ENODEV" ELSE "0"
            /\ UNCHANGED <<urb, urb_buffer, iso_length, sample_accumulator, hwptr,
                           transfer_done, running>>
      ]_vars
C20_Witness ==
    /\ obs.op = "step" /\ ~disconnected
    /\ local[CAPTURE].ops = MaxCaptureOps /\ pcm_state[CAPTURE] = "running"
    /\ running[CAPTURE] /\ running[PLAYBACK] /\ pcm_state[PLAYBACK] = "running"
    /\ urb[CAPTURE][1] = "inflight"
    /\ sample_accumulator = AccAfter(current_rate, 0, NumUrbs * SL3_ISO_PACKETS)

(***************************************************************************)
(* sl3_urb_start, one usb_submit_urb at a time.  A substream is prepared   *)
(* and its user triggers START; the host controller accepts a URB or       *)
(* refuses it, and the URBs already submitted complete while the loop      *)
(* goes on.  The rings have StartUrbs URBs.                                *)
(***************************************************************************)
StartUrbs == 2
MaxStarts == 2
\* what usb_submit_urb returns for a URB that is not submitted
SubmitResults == {"0", "ENOMEM"}
NoStartCall == [target |-> "none", i |-> 0, nested |-> FALSE, starts |-> 0, ret |-> "none"]

StartInit ==
    /\ current_rate = 48000
    /\ sample_accumulator = 0
    /\ feedback_samples = 0
    /\ disconnected = FALSE
    /\ \E setup \in ErrSetups :
        LET open == [s \in Streams |->
                        IF s = PLAYBACK THEN setup # "capture" ELSE setup # "playback"]
        IN  /\ substream = open
            /\ pcm_state = [s \in Streams |-> IF open[s] THEN "prepared" ELSE "closed"]
            /\ period_size = [s \in Streams |-> IF open[s] THEN HostPeriodFrames ELSE 0]
            /\ buffer_size = [s \in Streams |-> IF open[s] THEN HostBufferFrames ELSE 0]
            /\ dma_area = [s \in Streams |->
                        IF open[s] THEN RingPattern(BufferBytes(HostBufferFrames)) ELSE <<>>]
    /\ running = [s \in Streams |-> FALSE]
    /\ urb = [s \in Streams |-> [i \in 1..StartUrbs |-> "idle"]]
    /\ hwptr = [s \in Streams |-> 0]
    /\ transfer_done = [s \in Streams |-> 0]
    /\ urb_buffer = [s \in Streams |-> Bytes(SL3_URB_BUFFER_SIZE, 0)]
    /\ iso_length = [i \in 1..SL3_ISO_PACKETS |-> 0]
    /\ HidQuiet
    /\ stream_mutex = "free"
    /\ hid_mutex = "free"
    /\ pc = [t \in Streams |-> "idle"]
    /\ local = [t \in Streams |-> NoStartCall]
    /\ dev_queue = <<>>
    /\ ObsQuiet /\ CtlQuiet /\ UsbBound
    /\ error_retries = [s \in Streams |-> [i \in 1..StartUrbs |-> 0]]
    /\ play_underruns = 0
    /\ cap_overruns = 0

\* sl3_pcm_trigger(START) of substream t, sl3_urb_start up to its first
\* usb_submit_urb: the disconnected and running checks, the preparing of
\* every URB, running = true, and for playback without capture the same of
\* the nested sl3_urb_start(dev, &dev->capture)
StartEnter(t) ==
    /\ pc[t] = "idle" /\ pcm_state[t] = "prepared"
    /\ local[t].starts < MaxStarts
    /\ IF disconnected \/ running[t]
       THEN /\ local' = [local EXCEPT ![t].starts = @ + 1,
                            ![t].ret = IF disconnected THEN "ENODEV" ELSE "0"]
            /\ pcm_state' = IF disconnected THEN pcm_state
                            ELSE [pcm_state EXCEPT ![t] = "running"]
            /\ UNCHANGED <<running, sample_accumulator, urb_buffer, iso_length, pc>>
       ELSE LET implicit == t = PLAYBACK /\ ~running[CAPTURE]
            IN  /\ running' = [s \in Streams |-> s = t \/ implicit \/ running[s]]
                /\ sample_accumulator' =
                        IF t = PLAYBACK
                        THEN AccAfter(current_rate, 0, StartUrbs * SL3_ISO_PACKETS)
                        ELSE sample_accumulator
                /\ urb_buffer' = [s \in Streams |->
                        IF s = t \/ implicit THEN Bytes(SL3_URB_BUFFER_SIZE, 0)
                        ELSE urb_buffer[s]]
                /\ iso_length' =
                        IF t = PLAYBACK
                        THEN PreparedLengths(current_rate,
                                AccAfter(current_rate, 0, (StartUrbs - 1) * SL3_ISO_PACKETS),
                                SL3_ISO_PACKETS)
                        ELSE iso_length
                /\ local' = [local EXCEPT ![t].starts = @ + 1, ![t].ret = "none",
                                ![t].target = IF implicit THEN CAPTURE ELSE t,
                                ![t].nested = implicit, ![t].i = 1]
                /\ pc' = [pc EXCEPT ![t] = "submit"]
                /\ UNCHANGED pcm_state
    /\ obs' = [obs EXCEPT !.op = "start"]
    /\ UNCHANGED <<current_rate, feedback_samples, disconnected>>
    /\ UNCHANGED <<substream, hwptr, transfer_done, urb, period_size, buffer_size, dma_area>>
    /\ UNCHANGED <<hidVars, stream_mutex, hid_mutex, dev_queue>>
    /\ UNCHANGED <<ctlVars, errVars, usbVars>>

\* `stream->running = false; return err;` after a usb_submit_urb that
\* failed: the running flags when the loop of stream s fails, in the nested
\* start of the implicit capture or not
SubmitFailed_keeps(s, nested) ==
    [x \in Streams |-> IF nested /\ x = PLAYBACK THEN FALSE ELSE running[x]]

SubmitFailed(s, nested) ==
    [x \in Streams |-> IF x = s \/ (nested /\ x = PLAYBACK) THEN FALSE ELSE running[x]]

\* One turn of the submit loop in the start of substream t, usb_submit_urb
\* returning err: on 0 the loop goes on (after the last URB of the implicit
\* capture, with the loop of playback), on an error the start returns it.
\* A URB that is still submitted is refused with -EBUSY.
StartSubmitRet(t, res) ==
    /\ pc[t] = "submit"
    /\ LET s == local[t].target
           i == local[t].i
           err == IF urb[s][i] # "idle" THEN "EBUSY" ELSE res
           last == i = StartUrbs
       IN  IF err = "0"
           THEN /\ urb' = [urb EXCEPT ![s][i] = "inflight"]
                /\ IF ~last
                   THEN /\ local' = [local EXCEPT ![t].i = i + 1]
                        /\ UNCHANGED <<pc, pcm_state>>
                   ELSE IF local[t].nested
                   THEN /\ local' = [local EXCEPT ![t].target = t, ![t].nested = FALSE,
                                                  ![t].i = 1]
                        /\ UNCHANGED <<pc, pcm_state>>
                   ELSE /\ local' = [local EXCEPT ![t].ret = "0"]
                        /\ pc' = [pc EXCEPT ![t] = "idle"]
                        /\ pcm_state' = [pcm_state EXCEPT ![t] = "running"]
                /\ UNCHANGED running
           ELSE /\ running' = SubmitFailed(s, local[t].nested)
                /\ local' = [local EXCEPT ![t].ret = err]
                /\ pc' = [pc EXCEPT ![t] = "idle"]
                /\ UNCHANGED <<urb, pcm_state>>
    /\ obs' = [obs EXCEPT !.op = "start"]
    /\ UNCHANGED <<cfgVars, substream, hwptr, transfer_done, period_size, buffer_size>>
    /\ UNCHANGED <<bufVars, hidVars, stream_mutex, hid_mutex, dev_queue>>
    /\ UNCHANGED <<ctlVars, errVars, usbVars>>

StartSubmit(t) == \E res \in SubmitResults : StartSubmitRet(t, res)

StartNext ==
    \E s \in Streams :
        \/ StartEnter(s) \/ StartSubmit(s)
        \/ \E i \in 1..StartUrbs :
            IsoCompletion(s, i, "OK") \/ IsoProcess(s, i) \/ IsoResubmit(s, i)
SpecStart == StartInit /\ [][StartNext]_vars

\* the last start of stream s failed in its submit loop and no start has
\* set the stream running since
FailedStart(s) ==
    /\ ~running[s]
    /\ \E t \in Streams :
        /\ pc[t] = "idle" /\ local[t].ret \notin {"none", "0", "ENODEV"}
        /\ local[t].target = s

\* C21: when usb_submit_urb fails for URB i of a stream during start, the
\* start returns that error with the stream's running flag false, the URBs
\* from i on are left as they were (none is submitted), no URB is freed, and
\* a completion handler called for a URB of the stream after the failed
\* start does not resubmit it.
C21_SubmitFailure ==
    [][\A t \in Streams :
        /\ \A res \in SubmitResults :
            (StartSubmitRet(t, res) /\ pc'[t] = "idle" /\ local'[t].ret # "0") =>
                LET s == local[t].target
                IN  /\ local'[t].ret = (IF urb[s][local[t].i] = "idle" THEN res ELSE "EBUSY")
                    /\ ~running'[s] /\ ~running'[t]
                    /\ urb' = urb
        /\ \A i \in 1..StartUrbs :
            (FailedStart(t) /\ IsoCompletion(t, i, "OK")) => urb'[t][i] = "idle"
        /\ \A x \in Streams, i \in 1..StartUrbs : urb'[x][i] \notin {"freed", "freed_inflight"}
      ]_vars

\* a start failed at its last URB, and one of the URBs submitted before it
\* has completed since and was left alone
C21_Witness ==
    \E s \in Streams :
        /\ FailedStart(s)
        /\ \E t \in Streams : local[t].target = s /\ local[t].i = StartUrbs
                                /\ local[t].ret = "ENOMEM"
        /\ obs.op = "iso_complete"
        /\ urb[s][1] = "idle" /\ urb[s][StartUrbs] = "idle"

DefaultRates == {44100, 48000, BadRate}
UnwindLabels == <<"err_card_free", "err_free_cap_urbs", "err_free_play_urbs",
                  "err_hid_cleanup", "err_clear_intfdata", "err_reset_intf1",
                  "err_release_intf3", "err_release_intf2", "err_release_intf1",
                  "err_put_dev">>
\* the label the unwind falls through to
NextLabel(l) ==
    LET k == CHOOSE j \in DOMAIN UnwindLabels : UnwindLabels[j] = l
    IN  IF k = Len(UnwindLabels) THEN "failed" ELSE UnwindLabels[k + 1]

NoProbe == [fn |-> "init", cmd |-> 0, payload |-> <<>>, wait |-> TRUE, rate |-> 0,
            tag |-> 0, err |-> "none", step |-> 0, answered |-> 0,
            default_sample_rate |-> 48000, ret |-> "none"]

\* before sl3_probe: no struct sl3_device, nothing claimed (kzalloc gives a
\* zeroed structure)
ProbeInit ==
    /\ current_rate = 0
    /\ sample_accumulator = 0
    /\ feedback_samples = 0
    /\ disconnected = FALSE
    /\ StrQuiet /\ PcmQuiet /\ BufQuiet /\ ErrQuiet /\ ObsQuiet
    /\ hid_in_buf = <<>>
    /\ hid_out_buf = <<>>
    /\ hid_response_buf = Bytes(SL3_HID_REPORT_SIZE, 0)
    /\ hid_response_done = 0
    /\ overload_status = Bytes(6, 0)
    /\ phono_status = Bytes(3, 0)
    /\ usb_port_status = Bytes(4, 0)
    /\ hid_in_urb = "none"
    /\ card = FALSE /\ overload_ctl = FALSE /\ phono_ctl = FALSE
    /\ routing = [idx \in 0..2 |-> 0]
    /\ claimed = {}
    /\ altsetting = [n \in {SL3_INTF_AUDIO_OUT, SL3_INTF_AUDIO_IN} |-> 0]
    /\ intfdata = FALSE
    /\ dev_mem = "none"
    /\ private_free = FALSE
    /\ card_state = "none"
    /\ stream_mutex = "free"
    /\ hid_mutex = "free"
    /\ pc = [t \in {"usb"} |-> "probe"]
    /\ \E r \in DefaultRates :
        local = [t \in {"usb"} |-> [NoProbe EXCEPT !.default_sample_rate = r]]
    /\ dev_queue = <<>>

\* `goto label` with err set
ProbeGoto(label, err) ==
    /\ pc' = [pc EXCEPT !["usb"] = label]
    /\ local' = [local EXCEPT !["usb"].ret = err]

\* kzalloc of the struct sl3_device, usb_get_dev, the locks
ProbeAlloc ==
    /\ pc["usb"] = "probe"
    /\ \E ok \in BOOLEAN :
        IF ok
        THEN /\ dev_mem' = "allocated"
             /\ pc' = [pc EXCEPT !["usb"] = "claim"]
             /\ local' = [local EXCEPT !["usb"].step = SL3_INTF_AUDIO_OUT]
        ELSE /\ ProbeGoto("failed", "ENOMEM")
             /\ UNCHANGED dev_mem
    /\ obs' = [obs EXCEPT !.op = "probe"]
    /\ UNCHANGED <<cfgVars, strVars, pcmVars, bufVars, hidVars, ctlVars, errVars>>
    /\ UNCHANGED <<claimed, altsetting, intfdata, private_free, card_state>>
    /\ UNCHANGED <<stream_mutex, hid_mutex, dev_queue>>

\* usb_ifnum_to_if and usb_driver_claim_interface of interface 1, 2, 3
ProbeClaim ==
    /\ pc["usb"] = "claim"
    /\ LET n == local["usb"].step IN
       \E ok \in BOOLEAN :
        IF ok
        THEN /\ claimed' = claimed \cup {n}
             /\ pc' = [pc EXCEPT !["usb"] = IF n = SL3_INTF_HID THEN "altset" ELSE "claim"]
             /\ local' = [local EXCEPT !["usb"].step =
                                IF n = SL3_INTF_HID THEN SL3_INTF_AUDIO_OUT ELSE n + 1]
        ELSE /\ ProbeGoto(IF n = SL3_INTF_AUDIO_OUT THEN "err_put_dev"
                          ELSE IF n = SL3_INTF_AUDIO_IN THEN "err_release_intf1"
                          ELSE "err_release_intf2", "ENODEV")
             /\ UNCHANGED claimed
    /\ obs' = [obs EXCEPT !.op = "probe"]
    /\ UNCHANGED <<cfgVars, strVars, pcmVars, bufVars, hidVars, ctlVars, errVars>>
    /\ UNCHANGED <<altsetting, intfdata, dev_mem, private_free, card_state>>
    /\ UNCHANGED <<stream_mutex, hid_mutex, dev_queue>>

\* usb_set_interface(udev, n, 1) of the two streaming interfaces
ProbeSetAlt ==
    /\ pc["usb"] = "altset"
    /\ LET n == local["usb"].step IN
       \E ok \in BOOLEAN :
        IF ok
        THEN /\ altsetting' = [altsetting EXCEPT ![n] = 1]
             /\ pc' = [pc EXCEPT !["usb"] =
                            IF n = SL3_INTF_AUDIO_IN THEN "defaults" ELSE "altset"]
             /\ local' = [local EXCEPT !["usb"].step = SL3_INTF_AUDIO_IN]
        ELSE /\ ProbeGoto(IF n = SL3_INTF_AUDIO_OUT THEN "err_release_intf3"
                          ELSE "err_reset_intf1", "EIO")
             /\ UNCHANGED altsetting
    /\ obs' = [obs EXCEPT !.op = "probe"]
    /\ UNCHANGED <<cfgVars, strVars, pcmVars, bufVars, hidVars, ctlVars, errVars>>
    /\ UNCHANGED <<claimed, intfdata, dev_mem, private_free, card_state>>
    /\ UNCHANGED <<stream_mutex, hid_mutex, dev_queue>>

\* `dev->current_rate = default_sample_rate`, the routing, usb_set_intfdata
ProbeDefaults ==
    /\ pc["usb"] = "defaults"
    /\ current_rate' = local["usb"].default_sample_rate
    /\ routing' = [idx \in 0..2 |-> SL3_ROUTE_USB]
    /\ intfdata' = TRUE
    /\ pc' = [pc EXCEPT !["usb"] = "hid_alloc"]
    /\ obs' = [obs EXCEPT !.op = "probe"]
    /\ UNCHANGED <<sample_accumulator, feedback_samples, disconnected>>
    /\ UNCHANGED <<strVars, pcmVars, bufVars, hidVars, errVars>>
    /\ UNCHANGED <<claimed, altsetting, dev_mem, private_free, card_state>>
    /\ UNCHANGED <<stream_mutex, hid_mutex, local, dev_queue>>

\* the k-th command of the handshake of sl3_hid_init and its payload
InitCommand_ratefirst(k, rate) ==
    IF k = 1 THEN [cmd |-> SL3_HID_CMD_INIT, payload |-> <<0>>]
    ELSE IF k = 3 THEN [cmd |-> SL3_HID_CMD_STATUS, payload |-> <<1>>]
    ELSE IF k = 2 THEN [cmd |-> SL3_HID_CMD_SAMPLE_RATE,
                        payload |-> <<(rate \div 256) % 256, rate % 256>>]
    ELSE [cmd |-> SL3_HID_CMD_QUERY_PHONO, payload |-> <<>>]

InitCommand(k, rate) ==
    IF k = 1 THEN [cmd |-> SL3_HID_CMD_INIT, payload |-> <<0>>]
    ELSE IF k = 2 THEN [cmd |-> SL3_HID_CMD_STATUS, payload |-> <<1>>]
    ELSE IF k = 3 THEN [cmd |-> SL3_HID_CMD_SAMPLE_RATE,
                        payload |-> <<(rate \div 256) % 256, rate % 256>>]
    ELSE [cmd |-> SL3_HID_CMD_QUERY_PHONO, payload |-> <<>>]

\* sl3_hid_init up to mutex_lock: the OUT buffer (kmalloc, not zeroed), the
\* IN URB and its buffer, usb_submit_urb; on a failure what was allocated
\* is freed again and the error returned
HidInitAlloc ==
    /\ pc["usb"] = "hid_alloc"
    /\ \E r \in {"0", "ENOMEM", "EIO"} :
        IF r = "0"
        THEN /\ \E fill \in {0, 255} : hid_out_buf' = Bytes(SL3_HID_REPORT_SIZE, fill)
             /\ hid_in_buf' = Bytes(SL3_HID_REPORT_SIZE, 0)
             /\ hid_in_urb' = "inflight"
             /\ pc' = [pc EXCEPT !["usb"] = "lock"]
             /\ local' = [local EXCEPT !["usb"].step = 1,
                            !["usb"].cmd = InitCommand(1, current_rate).cmd,
                            !["usb"].payload = InitCommand(1, current_rate).payload]
        ELSE /\ ProbeGoto("err_clear_intfdata", r)
             /\ UNCHANGED <<hid_out_buf, hid_in_buf, hid_in_urb>>
    /\ obs' = [obs EXCEPT !.op = "probe"]
    /\ UNCHANGED <<hid_response_buf, hid_response_done, overload_status, phono_status,
                   usb_port_status, card, overload_ctl, phono_ctl>>
    /\ UNCHANGED <<cfgVars, strVars, pcmVars, bufVars, ctlVars, errVars, usbVars>>
    /\ UNCHANGED <<stream_mutex, hid_mutex, dev_queue>>

\* `memcpy(dev->phono_status, &dev->hid_response_buf[5], 3)`
PhonoFromResponse_byte4(buf) == Slice(buf, 4, 3)

PhonoFromResponse(buf) == Slice(buf, 5, 3)

\* sl3_hid_init after a command has returned: the next command whatever
\* the last returned; after the fourth the phono cache if it returned 0,
\* mutex_unlock, msleep, return 0
ProbeHidNext ==
    /\ pc["usb"] = "unlock"
    /\ LET k == local["usb"].step
           ok == local["usb"].err = "0"
           answered == local["usb"].answered + (IF ok THEN 1 ELSE 0)
       IN
       IF k < 4
       THEN /\ local' = [local EXCEPT !["usb"].step = k + 1, !["usb"].answered = answered,
                            !["usb"].cmd = InitCommand(k + 1, current_rate).cmd,
                            !["usb"].payload = InitCommand(k + 1, current_rate).payload]
            /\ pc' = [pc EXCEPT !["usb"] = "build"]
            /\ UNCHANGED <<hid_mutex, phono_status>>
       ELSE /\ phono_status' = IF ok THEN PhonoFromResponse(hid_response_buf)
                               ELSE phono_status
            /\ hid_mutex' = "free"
            /\ local' = [local EXCEPT !["usb"].step = 1, !["usb"].answered = answered]
            /\ pc' = [pc EXCEPT !["usb"] = "urb_alloc"]
    /\ obs' = [obs EXCEPT !.op = "init_next"]
    /\ UNCHANGED <<hid_in_buf, hid_out_buf, hid_response_buf, hid_response_done,
                   overload_status, usb_port_status, hid_in_urb, card, overload_ctl,
                   phono_ctl>>
    /\ UNCHANGED <<cfgVars, strVars, pcmVars, bufVars, ctlVars, errVars, usbVars>>
    /\ UNCHANGED <<stream_mutex, dev_queue>>

\* sl3_urb_alloc of playback, then of capture; a failed allocation frees
\* the URBs of the stream it had
ProbeUrbAlloc ==
    /\ pc["usb"] = "urb_alloc"
    /\ LET s == IF local["usb"].step = 1 THEN PLAYBACK ELSE CAPTURE IN
       \E ok \in BOOLEAN :
        IF ok
        THEN /\ urb' = [urb EXCEPT ![s] = [i \in 1..NumUrbs |-> "idle"]]
             /\ urb_buffer' = [urb_buffer EXCEPT ![s] = Bytes(SL3_URB_BUFFER_SIZE, 0)]
             /\ pc' = [pc EXCEPT !["usb"] = IF s = PLAYBACK THEN "urb_alloc" ELSE "pcm_init"]
             /\ local' = [local EXCEPT !["usb"].step = 2]
        ELSE /\ ProbeGoto(IF s = PLAYBACK THEN "err_hid_cleanup" ELSE "err_free_play_urbs",
                          "ENOMEM")
             /\ UNCHANGED <<urb, urb_buffer>>
    /\ obs' = [obs EXCEPT !.op = "probe"]
    /\ UNCHANGED <<cfgVars, running, substream, hwptr, transfer_done, pcmVars>>
    /\ UNCHANGED <<dma_area, iso_length, hidVars, ctlVars, errVars, usbVars>>
    /\ UNCHANGED <<stream_mutex, hid_mutex, dev_queue>>

\* sl3_pcm_init: snd_card_new, card->private_free, snd_pcm_new.  When
\* snd_pcm_new fails, snd_card_free calls the private_free that was just
\* set, sl3_card_private_free, which kfrees the device structure, and
\* `dev->card = NULL` then writes to it.
ProbePcmInit ==
    /\ pc["usb"] = "pcm_init"
    /\ \E r \in {"0", "snd_card_new", "snd_pcm_new"} :
        IF r = "0"
        THEN /\ card' = TRUE
             /\ private_free' = TRUE
             /\ card_state' = "new"
             /\ pc' = [pc EXCEPT !["usb"] = "control_init"]
             /\ obs' = [obs EXCEPT !.op = "probe"]
             /\ UNCHANGED <<dev_mem, local>>
        ELSE IF r = "snd_card_new"
        THEN /\ ProbeGoto("err_free_cap_urbs", "ENOMEM")
             /\ obs' = [obs EXCEPT !.op = "probe"]
             /\ UNCHANGED <<card, private_free, card_state, dev_mem>>
        ELSE /\ dev_mem' = "freed"
             /\ card_state' = "freed"
             /\ private_free' = FALSE
             /\ card' = FALSE
             /\ ProbeGoto("err_free_cap_urbs", "ENOMEM")
             /\ obs' = [obs EXCEPT !.op = "probe", !.frees = @ + 1, !.uaf = TRUE]
    /\ UNCHANGED <<hid_in_buf, hid_out_buf, hid_response_buf, hid_response_done,
                   overload_status, phono_status, usb_port_status, hid_in_urb,
                   overload_ctl, phono_ctl>>
    /\ UNCHANGED <<cfgVars, strVars, pcmVars, bufVars, ctlVars, errVars>>
    /\ UNCHANGED <<claimed, altsetting, intfdata>>
    /\ UNCHANGED <<stream_mutex, hid_mutex, dev_queue>>

\* sl3_control_init (a failure before or after dev->overload_ctl is set),
\* sl3_proc_init
ProbeControlInit ==
    /\ pc["usb"] = "control_init"
    /\ \E r \in {"0", "early", "late"} :
        /\ overload_ctl' = (r # "early")
        /\ phono_ctl' = (r = "0")
        /\ IF r = "0"
           THEN /\ pc' = [pc EXCEPT !["usb"] = "register"]
                /\ UNCHANGED local
           ELSE ProbeGoto("err_card_free", "ENOMEM")
    /\ obs' = [obs EXCEPT !.op = "probe"]
    /\ UNCHANGED <<hid_in_buf, hid_out_buf, hid_response_buf, hid_response_done,
                   overload_status, phono_status, usb_port_status, hid_in_urb, card>>
    /\ UNCHANGED <<cfgVars, strVars, pcmVars, bufVars, ctlVars, errVars, usbVars>>
    /\ UNCHANGED <<stream_mutex, hid_mutex, dev_queue>>

\* snd_card_register, return 0
ProbeRegister ==
    /\ pc["usb"] = "register"
    /\ \E ok \in BOOLEAN :
        IF ok
        THEN /\ card_state' = "registered"
             /\ ProbeGoto("bound", "0")
        ELSE /\ ProbeGoto("err_card_free", "EIO")
             /\ UNCHANGED card_state
    /\ obs' = [obs EXCEPT !.op = "probe"]
    /\ UNCHANGED <<cfgVars, strVars, pcmVars, bufVars, hidVars, ctlVars, errVars>>
    /\ UNCHANGED <<claimed, altsetting, intfdata, dev_mem, private_free>>
    /\ UNCHANGED <<stream_mutex, hid_mutex, dev_queue>>

\* The statements of one label of the unwind of sl3_probe; err_put_dev
\* kfrees the device structure and returns err.  Every label reads the
\* structure; when it was freed the kernel may stop in an oops.
ProbeUnwind ==
    LET l == pc["usb"]
        stale == dev_mem = "freed"
    IN
    /\ \E k \in DOMAIN UnwindLabels : UnwindLabels[k] = l
    /\ \E oops \in (IF stale THEN BOOLEAN ELSE {FALSE}) :
        IF oops
        THEN /\ pc' = [pc EXCEPT !["usb"] = "oops"]
             /\ obs' = [obs EXCEPT !.op = "unwind", !.uaf = TRUE]
             /\ UNCHANGED <<urb, urb_buffer, hid_in_urb, hid_in_buf, hid_out_buf, card>>
             /\ UNCHANGED usbVars
        ELSE
          /\ pc' = [pc EXCEPT !["usb"] = NextLabel(l)]
          /\ obs' = [obs EXCEPT !.op = "unwind", !.uaf = @ \/ stale,
                        !.frees = IF l = "err_put_dev" THEN @ + 1 ELSE @]
          /\ private_free' = IF l = "err_card_free" THEN FALSE ELSE private_free
          /\ card_state' = IF l = "err_card_free" THEN "freed" ELSE card_state
          /\ card' = IF l = "err_card_free" THEN FALSE ELSE card
          /\ urb' = [s \in Streams |->
                        IF (l = "err_free_cap_urbs" /\ s = CAPTURE)
                            \/ (l = "err_free_play_urbs" /\ s = PLAYBACK)
                        THEN <<>> ELSE urb[s]]
          /\ urb_buffer' = [s \in Streams |->
                        IF (l = "err_free_cap_urbs" /\ s = CAPTURE)
                            \/ (l = "err_free_play_urbs" /\ s = PLAYBACK)
                        THEN <<>> ELSE urb_buffer[s]]
          /\ hid_in_urb' = IF l = "err_hid_cleanup" THEN "none" ELSE hid_in_urb
          /\ hid_in_buf' = IF l = "err_hid_cleanup" THEN <<>> ELSE hid_in_buf
          /\ hid_out_buf' = IF l = "err_hid_cleanup" THEN <<>> ELSE hid_out_buf
          /\ intfdata' = IF l = "err_clear_intfdata" THEN FALSE ELSE intfdata
          /\ altsetting' =
                IF l = "err_clear_intfdata" THEN [altsetting EXCEPT ![SL3_INTF_AUDIO_IN] = 0]
                ELSE IF l = "err_reset_intf1"
                THEN [altsetting EXCEPT ![SL3_INTF_AUDIO_OUT] = 0]
                ELSE altsetting
          /\ claimed' = IF l = "err_release_intf3" THEN claimed \ {SL3_INTF_HID}
                        ELSE IF l = "err_release_intf2" THEN claimed \ {SL3_INTF_AUDIO_IN}
                        ELSE IF l = "err_release_intf1" THEN claimed \ {SL3_INTF_AUDIO_OUT}
                        ELSE claimed
          /\ dev_mem' = IF l = "err_put_dev" THEN "freed" ELSE dev_mem
    /\ UNCHANGED <<hid_response_buf, hid_response_done, overload_status, phono_status,
                   usb_port_status, overload_ctl, phono_ctl>>
    /\ UNCHANGED <<cfgVars, running, substream, hwptr, transfer_done, pcmVars>>
    /\ UNCHANGED <<dma_area, iso_length, ctlVars, errVars>>
    /\ UNCHANGED <<stream_mutex, hid_mutex, local, dev_queue>>

ProbeNext ==
    \/ ProbeAlloc \/ ProbeClaim \/ ProbeSetAlt \/ ProbeDefaults
    \/ HidInitAlloc \/ HidLock("usb") \/ HidBuild("usb") \/ HidSendOk("usb")
    \/ HidSendFail("usb") \/ HidWaitDone("usb") \/ HidWaitTimeout("usb")
    \/ ProbeHidNext \/ HidInDeliver
    \/ ProbeUrbAlloc \/ ProbePcmInit \/ ProbeControlInit \/ ProbeRegister
    \/ ProbeUnwind
SpecProbe == ProbeInit /\ [][ProbeNext]_vars

\* C23: when sl3_probe has returned 0 and each of the four handshake
\* commands returned 0 (was answered within its wait), current_rate is the
\* value of default_sample_rate, every pair is routed to USB, the phono
\* cache holds bytes 5..7 of the device's response to the Query-phono
\* command, both URB rings are allocated and idle with neither stream
\* running, and the HID IN URB is in flight.
C23_ProbeSuccess ==
    (pc["usb"] = "bound" /\ local["usb"].answered = 4) =>
        /\ current_rate = local["usb"].default_sample_rate
        /\ routing = [idx \in 0..2 |-> SL3_ROUTE_USB]
        /\ phono_status =
                Slice(DeviceResponse(SL3_HID_CMD_QUERY_PHONO, local["usb"].tag), 5, 3)
        /\ \A s \in Streams : urb[s] = [i \in 1..NumUrbs |-> "idle"] /\ ~running[s]
        /\ hid_in_urb = "inflight"

\* a probe that succeeded with all four commands answered and a phono
\* cache that is not the zeroes of kzalloc
C23_Witness ==
    /\ pc["usb"] = "bound" /\ local["usb"].answered = 4
    /\ phono_status # Bytes(3, 0)
    /\ card_state = "registered"

\* C24: when sl3_probe has returned an error, no interface is claimed, no
\* URB and no HID buffer is allocated, the HID IN URB is not in flight and
\* the device structure, if it was allocated, was kfreed exactly once; and
\* at no point of the probe is the structure accessed after its kfree or
\* kfreed twice.
C24_FailedProbeUnwound ==
    /\ obs.frees <= 1
    /\ ~obs.uaf
    /\ pc["usb"] = "failed" =>
        /\ claimed = {}
        /\ \A s \in Streams : urb[s] = <<>> /\ urb_buffer[s] = <<>>
        /\ hid_in_buf = <<>> /\ hid_out_buf = <<>> /\ hid_in_urb = "none"
        /\ dev_mem # "allocated"
        /\ obs.frees = (IF dev_mem = "freed" THEN 1 ELSE 0)

\* C26: after a successful probe current_rate is 44100 or 48000, whatever
\* the value of default_sample_rate and the outcome of the handshake.
C26_RateIsNominal == pc["usb"] = "bound" => current_rate \in Rates

Flushed(u) ==
    [s \in Streams |-> [i \in DOMAIN u[s] |->
        IF u[s][i] = "freed_inflight" THEN "freed"
        ELSE IF u[s][i] = "inflight" THEN "idle" ELSE u[s][i]]]

\* sl3_urb_free of both streams.  usb_free_urb drops the driver's
\* reference; a completion handler that is running goes on.
DiscFreeUrbs ==
    /\ pc["usb"] = "free"
    /\ urb' = [s \in Streams |-> [i \in DOMAIN urb[s] |->
                    IF urb[s][i] = "inflight" THEN "freed_inflight"
                    ELSE IF urb[s][i] = "idle" THEN "freed" ELSE urb[s][i]]]
    /\ urb_buffer' = [s \in Streams |-> <<>>]
    /\ pc' = [pc EXCEPT !["usb"] = "hid_cleanup"]
    /\ obs' = [obs EXCEPT !.op = "disconnect"]
    /\ UNCHANGED <<cfgVars, running, substream, hwptr, transfer_done, pcmVars>>
    /\ UNCHANGED <<dma_area, iso_length, hidVars>>
    /\ UNCHANGED <<stream_mutex, hid_mutex, local, dev_queue>>
    /\ UNCHANGED <<ctlVars, errVars, usbVars>>

\* sl3_hid_cleanup: usb_kill_urb of the IN URB, the buffers freed
DiscHidCleanup ==
    /\ pc["usb"] = "hid_cleanup"
    /\ hid_in_urb' = "none"
    /\ hid_in_buf' = <<>>
    /\ hid_out_buf' = <<>>
    /\ pc' = [pc EXCEPT !["usb"] = "reset_alt"]
    /\ obs' = [obs EXCEPT !.op = "disconnect"]
    /\ UNCHANGED <<hid_response_buf, hid_response_done, overload_status, phono_status,
                   usb_port_status, card, overload_ctl, phono_ctl>>
    /\ UNCHANGED <<cfgVars, strVars, pcmVars, bufVars>>
    /\ UNCHANGED <<stream_mutex, hid_mutex, local, dev_queue>>
    /\ UNCHANGED <<ctlVars, errVars, usbVars>>

\* usb_set_interface(udev, n, 0) of both streaming interfaces, the result
\* ignored: on a device that is unplugged the request fails and nothing is
\* changed
DiscResetAlt ==
    /\ pc["usb"] = "reset_alt"
    /\ \E ok \in BOOLEAN :
        /\ altsetting' = IF ok THEN [n \in DOMAIN altsetting |-> 0] ELSE altsetting
        /\ urb' = IF ok THEN Flushed(urb) ELSE urb
    /\ pc' = [pc EXCEPT !["usb"] = "release"]
    /\ obs' = [obs EXCEPT !.op = "disconnect"]
    /\ UNCHANGED <<cfgVars, running, substream, hwptr, transfer_done, pcmVars>>
    /\ UNCHANGED <<bufVars, hidVars>>
    /\ UNCHANGED <<stream_mutex, hid_mutex, local, dev_queue>>
    /\ UNCHANGED <<ctlVars, errVars>>
    /\ UNCHANGED <<claimed, intfdata, dev_mem, private_free, card_state>>

\* usb_driver_release_interface of interfaces 3, 2 and 1
DiscRelease ==
    /\ pc["usb"] = "release"
    /\ claimed' = {}
    /\ urb' = Flushed(urb)
    /\ pc' = [pc EXCEPT !["usb"] = "finish"]
    /\ obs' = [obs EXCEPT !.op = "disconnect"]
    /\ UNCHANGED <<cfgVars, running, substream, hwptr, transfer_done, pcmVars>>
    /\ UNCHANGED <<bufVars, hidVars>>
    /\ UNCHANGED <<stream_mutex, hid_mutex, local, dev_queue>>
    /\ UNCHANGED <<ctlVars, errVars>>
    /\ UNCHANGED <<altsetting, intfdata, dev_mem, private_free, card_state>>

\* usb_set_intfdata(intf, NULL), usb_put_dev, snd_card_free_when_closed
DiscFinish ==
    /\ pc["usb"] = "finish"
    /\ intfdata' = FALSE
    /\ card_state' = "closing"
    /\ pc' = [pc EXCEPT !["usb"] = "gone"]
    /\ obs' = [obs EXCEPT !.op = "disconnect"]
    /\ UNCHANGED <<cfgVars, strVars, pcmVars, bufVars, hidVars>>
    /\ UNCHANGED <<stream_mutex, hid_mutex, local, dev_queue>>
    /\ UNCHANGED <<ctlVars, errVars>>
    /\ UNCHANGED <<claimed, altsetting, dev_mem, private_free>>

\* the last handle on the card is closed (or none was open): the sound core
\* frees the card, card->private_free is sl3_card_private_free: kfree(dev)
CardRelease ==
    /\ card_state = "closing"
    /\ \A s \in Streams : pcm_state[s] = "closed" /\ pc[s] = "idle"
    /\ card_state' = "freed"
    /\ dev_mem' = IF private_free THEN "freed" ELSE dev_mem
    /\ obs' = [obs EXCEPT !.op = "release",
                          !.frees = IF private_free THEN @ + 1 ELSE @]
    /\ UNCHANGED <<cfgVars, strVars, pcmVars, bufVars, hidVars, ctxVars>>
    /\ UNCHANGED <<ctlVars, errVars>>
    /\ UNCHANGED <<claimed, altsetting, intfdata, private_free>>

\* the rest of a completion handler that was running when sl3_urb_free
\* freed the ring: it reads ctx->stream, stream->running and
\* dev->disconnected and returns
IsoLate(s, i) ==
    /\ urb[s][i] \in {"callback", "submit"}
    /\ urb_buffer[s] = <<>>
    /\ urb' = [urb EXCEPT ![s][i] = "freed"]
    /\ obs' = [obs EXCEPT !.op = "late", !.stream = s,
                          !.uaf = @ \/ dev_mem = "freed"]
    /\ UNCHANGED <<cfgVars, running, substream, hwptr, transfer_done, pcmVars>>
    /\ UNCHANGED <<urb_buffer, dma_area, iso_length, hidVars, ctxVars>>
    /\ UNCHANGED <<ctlVars, errVars, usbVars>>

\* a callback of the driver runs: a PCM callback or a completion handler
DriverCallback ==
    \/ \E s \in Streams :
        \/ PcmTriggerStop(s) \/ PcmClose(s) \/ PcmCloseFinish(s) \/ UrbStopKill(s)
        \/ \E i \in 1..NumUrbs :
            \/ IsoCompleteGone(s, i)
            \/ urb_buffer[s] # <<>> /\ IsoProcess(s, i)
            \/ urb_buffer[s] # <<>> /\ IsoResubmit(s, i)
            \/ IsoLate(s, i)

UnplugNext ==
    \/ DriverCallback
    \/ UsbDisconnect \/ UsbStop \/ UrbStopKill("usb")
    \/ DiscFreeUrbs \/ DiscHidCleanup \/ DiscResetAlt \/ DiscRelease \/ DiscFinish
    \/ CardRelease
SpecUnplug == ErrInit /\ [][UnplugNext]_vars

\* C25: sl3_disconnect sets disconnected and disconnects the card before it
\* stops the streams, stops both streams before it frees the rings, frees
\* the rings before it tears down HID, tears down HID before it resets the
\* alternate settings, and resets them before it releases the interfaces;
\* the device structure is kfreed at most once, and only when the
\* disconnect has returned and every substream is closed; and no PCM
\* callback and no URB completion handler runs once it is kfreed.
C25_DisconnectOrder ==
    [][/\ UsbStop => disconnected /\ card_state = "disconnected"
       /\ DiscFreeUrbs => \A s \in Streams : ~running[s]
       /\ DiscHidCleanup => \A s \in Streams : urb_buffer[s] = <<>>
       /\ DiscResetAlt => hid_in_urb = "none" /\ hid_in_buf = <<>> /\ hid_out_buf = <<>>
       /\ DiscRelease =>
            claimed = {SL3_INTF_AUDIO_OUT, SL3_INTF_AUDIO_IN, SL3_INTF_HID}
       /\ DiscFinish => claimed = {} /\ dev_mem = "allocated"
       /\ dev_mem' = "freed" /\ dev_mem # "freed" =>
            /\ obs.frees = 0
            /\ pc["usb"] = "gone" /\ \A s \in Streams : pcm_state[s] = "closed"
       /\ DriverCallback => dev_mem = "allocated"
      ]_vars

\* C27: a HID IN completion with a cancelled or connection-reset status
\* leaves the IN URB unsubmitted; one with the device-gone status sets
\* disconnected and leaves it unsubmitted; after every other completion
\* (stall, overflow, unknown error, a successful report of any code and
\* length) the URB is submitted again when disconnected is false.  An error
\* completion, and a 0x34 report under 11 bytes, a 0x38 report under 8 and a
\* 0x39 report under 9, change none of the three caches, do not write the
\* mailbox, signal no waiter and notify no control.
C27_HidInPolicy ==
    obs.op = "hid_in" =>
        LET short == \/ obs.code = SL3_HID_NOTIFY_OVERLOAD /\ obs.alen < 11
                     \/ obs.code = SL3_HID_NOTIFY_PHONO /\ obs.alen < 8
                     \/ obs.code = SL3_HID_NOTIFY_USB_PORT /\ obs.alen < 9
        IN
        /\ obs.status \in {"ENOENT", "ECONNRESET"} => hid_in_urb = "idle"
        /\ obs.status = "ESHUTDOWN" => disconnected /\ hid_in_urb = "idle"
        /\ obs.status \notin {"ENOENT", "ECONNRESET", "ESHUTDOWN"} /\ ~disconnected =>
            hid_in_urb = "inflight"
        /\ obs.status # "OK" \/ short =>
            /\ overload_status = obs.pre.overload_status
            /\ phono_status = obs.pre.phono_status
            /\ usb_port_status = obs.pre.usb_port_status
            /\ hid_response_buf = obs.pre.hid_response_buf
            /\ hid_response_done = obs.pre.hid_response_done
            /\ obs.notified = {}
\* a phono report of 5 bytes after one of 8 bytes that filled the cache
C27_Witness ==
    /\ obs.op = "hid_in" /\ obs.status = "OK" /\ obs.calls = 2
    /\ obs.code = SL3_HID_NOTIFY_PHONO /\ obs.alen = 5
    /\ phono_status # Bytes(3, 0)
    /\ hid_in_urb = "inflight" /\ ~disconnected

\* The part of a completion handler between spin_lock_irqsave(&stream->lock)
\* and spin_unlock_irqrestore: the only place where the driver takes a
\* stream's spinlock.
HoldsStreamLock(s) == \E i \in 1..NumUrbs : IsoProcess(s, i)

\* C29: every step that changes a stream's hwptr, transfer_done or running
\* flag is made by a context that holds that stream's spinlock.
C29_WritesUnderLock ==
    [][\A s \in Streams :
          (\/ hwptr'[s] # hwptr[s]
           \/ transfer_done'[s] # transfer_done[s]
           \/ running'[s] # running[s]) => HoldsStreamLock(s)
      ]_vars

(***************************************************************************)
(* SpecLive: everything that takes a lock or waits, at once.  The streams  *)
(* run; their users stop and close them; "ctl" writes the rate control     *)
(* (sl3_set_sample_rate: stream_mutex, inside it the HID command under     *)
(* hid_mutex); "c1" writes a routing control (sl3_hid_set_routing under    *)
(* hid_mutex); URBs complete; the device is unplugged.  A completion       *)
(* handler returns, a mutex that is free is obtained, usb_interrupt_msg    *)
(* and wait_for_completion_timeout return after their timeout at the       *)
(* latest, and a context that can go on does.                              *)
(***************************************************************************)
LiveThreads == StreamThreads \cup {"c1"}
MaxRoutes == 2
LiveSetups == ErrSetups \cup {"controls"}

LiveInit ==
    /\ current_rate = 44100
    /\ sample_accumulator = AccAfter(current_rate, 0, NumUrbs * SL3_ISO_PACKETS)
    /\ feedback_samples = 0
    /\ disconnected = FALSE
    /\ \E setup \in LiveSetups :
        LET streams == setup # "controls"
            open == [s \in Streams |->
                        /\ streams
                        /\ IF s = PLAYBACK THEN setup # "capture" ELSE setup # "playback"]
            runs == [s \in Streams |-> streams /\ (s = CAPTURE \/ setup # "capture")]
        IN  /\ running = runs
            /\ substream = open
            /\ urb = [s \in Streams |-> [i \in 1..NumUrbs |->
                        IF runs[s] THEN "inflight" ELSE "idle"]]
            /\ pcm_state = [s \in Streams |->
                        IF ~open[s] THEN "closed"
                        ELSE IF s = CAPTURE /\ setup # "capture" THEN "prepared"
                        ELSE "running"]
            /\ period_size = [s \in Streams |-> IF open[s] THEN HostPeriodFrames ELSE 0]
            /\ buffer_size = [s \in Streams |-> IF open[s] THEN HostBufferFrames ELSE 0]
            /\ dma_area = [s \in Streams |->
                        IF open[s] THEN RingPattern(BufferBytes(HostBufferFrames)) ELSE <<>>]
            \* the controls are written while no PCM is in use: with a
            \* stream in use the writers have no call left
            /\ local = [t \in LiveThreads |->
                        IF t = "c1" THEN NoCall
                        ELSE IF t = "ctl"
                        THEN [NoStreamCall EXCEPT !.ops = IF streams THEN MaxRatePuts ELSE 0]
                        ELSE IF t \in Streams /\ open[t]
                        THEN [NoStreamCall EXCEPT !.rt_rate = current_rate,
                                                  !.ops = MaxPcmOps(t) - 1]
                        ELSE NoStreamCall]
            /\ obs = [ObsNone EXCEPT
                        !.cmds = IF streams THEN MaxCmds ELSE MaxCmds - MaxRoutes]
    /\ hwptr = [s \in Streams |-> 0]
    /\ transfer_done = [s \in Streams |-> 0]
    /\ urb_buffer = [s \in Streams |-> Bytes(SL3_URB_BUFFER_SIZE, 0)]
    /\ iso_length = PreparedLengths(current_rate,
                        AccAfter(current_rate, 0, (NumUrbs - 1) * SL3_ISO_PACKETS),
                        SL3_ISO_PACKETS)
    /\ HidQuiet
    /\ stream_mutex = "free"
    /\ hid_mutex = "free"
    /\ pc = [t \in LiveThreads |-> "idle"]
    /\ dev_queue = <<>>
    /\ CtlQuiet /\ UsbBound
    /\ error_retries = [s \in Streams |-> [i \in 1..NumUrbs |-> 0]]
    /\ play_underruns = 0
    /\ cap_overruns = 0

\* the steps of a context that has been entered, up to its return
RateSteps ==
    RateLock("ctl") \/ RateCheck("ctl") \/ RateHid("ctl") \/ RateSleepDone("ctl")
        \/ RateRet("ctl")
RouteSteps ==
    HidLock("c1") \/ HidBuild("c1") \/ HidSendOk("c1") \/ HidSendFail("c1")
        \/ HidUnlock("c1")
DisconnectSteps ==
    UsbStop \/ UrbStopKill("usb") \/ DiscFreeUrbs \/ DiscHidCleanup \/ DiscResetAlt
        \/ DiscRelease \/ DiscFinish
CloseSteps(s) == UrbStopKill(s) \/ PcmCloseFinish(s)
HandlerSteps(s) ==
    \E i \in 1..NumUrbs :
        \/ urb_buffer[s] # <<>> /\ IsoProcess(s, i)
        \/ urb_buffer[s] # <<>> /\ IsoResubmit(s, i)
        \/ IsoLate(s, i)

LiveNext ==
    \/ \E s \in Streams :
        \/ PcmTriggerStop(s) \/ PcmClose(s) \/ CloseSteps(s)
        \/ \E i \in 1..NumUrbs : IsoCompleteGone(s, i)
        \/ HandlerSteps(s)
    \/ CtlRatePut \/ RateSteps
    \/ HidCallSetRouting("c1") \/ RouteSteps
    \/ HidInDeliver
    \/ UsbDisconnect \/ DisconnectSteps
    \/ CardRelease

\* sl3_set_sample_rate, sl3_hid_set_routing, sl3_disconnect and
\* sl3_pcm_close run in process context: one that can go on does
ContextSteps ==
    RateSteps \/ RouteSteps \/ DisconnectSteps \/ \E s \in Streams : CloseSteps(s)
\* a completion handler of the stream has been called and has not returned:
\* the condition under which HandlerSteps(s) is enabled
HandlerPending(s) == \E i \in 1..NumUrbs : urb[s][i] \in {"callback", "submit"}
\* weak fairness of the process contexts and of the completion handlers of
\* each stream, the latter written out as WF_vars(HandlerSteps(s)) is by
\* definition, with HandlerPending(s) for ENABLED <<HandlerSteps(s)>>_vars
SpecLive ==
    /\ LiveInit /\ [][LiveNext]_vars
    /\ WF_vars(ContextSteps)
    /\ \A s \in Streams : []<>(~HandlerPending(s)) \/ []<><<HandlerSteps(s)>>_vars

\* a context that is not inside the driver holds no mutex, and the holder of
\* the HID mutex never waits for the stream mutex
LocksInOrder ==
    \A t \in LiveThreads :
        /\ pc[t] \in {"idle", "gone"} => stream_mutex # t /\ hid_mutex # t
        /\ hid_mutex = t /\ stream_mutex # t => pc[t] # "rate_lock"

\* C30 with every open substream configured: the mutexes are nested only as
\* stream_mutex then hid_mutex, every
\* return path has released what it locked, and every context that entered
\* the driver - a stop in close, the disconnect with its stops and frees, a
\* rate change, a routing command - returns, whatever completion handlers
\* and HID commands run at the same time.
C30_DeadlockFree ==
    /\ []LocksInOrder
    /\ <>[](\A t \in LiveThreads : pc[t] \in {"idle", "gone"})
\* the disconnect is in sl3_hid_cleanup while the rate change holds the
\* stream mutex and waits for the HID mutex, which the routing command holds
C30_Witness ==
    /\ stream_mutex = "ctl" /\ pc["ctl"] = "rate_hid"
    /\ hid_mutex = "c1"
    /\ pc["usb"] = "hid_cleanup"

\* What the switch on urb->status of sl3_playback_complete,
\* sl3_capture_complete and sl3_hid_in_complete calls that can sleep: the
\* stall branch calls usb_clear_halt, a synchronous control transfer.
SwitchCalls(status) == IF status = "EPIPE" THEN {"usb_clear_halt"} ELSE {}
\* calls that sleep or wait for a transfer
BlockingCalls == {"usb_clear_halt", "usb_interrupt_msg", "usb_kill_urb", "mutex_lock",
                  "msleep", "wait_for_completion_timeout"}

\* C31: no step of a playback or capture completion handler makes a call
\* that can block.
C31_NoBlockingInCallback ==
    [][\A s \in Streams, i \in 1..NumUrbs, status \in IsoStatuses :
          IsoCompletion(s, i, status) => SwitchCalls(status) \cap BlockingCalls = {}
      ]_vars

\* the streams whose URBs a sl3_urb_start(dev, s) prepares (it writes the
\* transfer buffer and the packet descriptors) and then submits
StartTouches(s) ==
    IF disconnected \/ ~UrbStart(s).prepared THEN {}
    ELSE {s} \cup (IF s = PLAYBACK /\ ~running[CAPTURE] THEN {CAPTURE} ELSE {})

\* C32: a trigger START prepares and submits only URBs that are not in
\* flight.
C32_UrbOwnedInFlight ==
    [][\A s \in Streams :
          PcmTriggerStart(s) =>
              \A t \in StartTouches(s), i \in 1..NumUrbs : urb[t][i] # "inflight"
      ]_vars

\* C33: when sl3_urb_free frees the rings no URB is in flight and no
\* completion handler is running, and no completion handler runs on a ring
\* that has been freed.
C33_FreeAfterDrain ==
    [][/\ DiscFreeUrbs => \A s \in Streams, i \in 1..NumUrbs : urb[s][i] = "idle"
       /\ \A s \in Streams, i \in 1..NumUrbs : ~IsoLate(s, i)
      ]_vars

(***************************************************************************)
(* SpecFeed: both streams run; playback has a host ring, and capture runs  *)
(* either for a user (substream and ring attached) or only as the implicit *)
(* feedback source (no substream).  URBs of either stream complete.        *)
(***************************************************************************)
FeedInit ==
    /\ current_rate \in Rates
    /\ sample_accumulator = 0
    /\ feedback_samples = 0
    /\ disconnected = FALSE
    /\ running = [s \in Streams |-> TRUE]
    /\ hwptr = [s \in Streams |-> 0]
    /\ transfer_done = [s \in Streams |-> 0]
    /\ urb = [s \in Streams |-> <<"inflight">>]
    /\ \E p \in PeriodSizes, user \in BOOLEAN :
        LET open(s) == s = PLAYBACK \/ user
        IN  /\ substream = [s \in Streams |-> open(s)]
            /\ period_size = [s \in Streams |-> IF open(s) THEN p ELSE 0]
            /\ buffer_size = [s \in Streams |-> IF open(s) THEN RingFrames(p) ELSE 0]
            /\ dma_area = [s \in Streams |->
                    IF open(s) THEN RingPattern(BufferBytes(RingFrames(p))) ELSE <<>>]
            /\ pcm_state = [s \in Streams |-> IF open(s) THEN "running" ELSE "closed"]
    /\ urb_buffer = [s \in Streams |-> UrbPattern]
    /\ iso_length = [i \in 1..SL3_ISO_PACKETS |-> SL3_SAMPLES_48K * SL3_BYTES_PER_FRAME]
    /\ HidQuiet /\ CtxQuiet /\ ObsQuiet /\ CtlQuiet /\ ErrQuiet /\ UsbBound

SpecFeed == FeedInit /\ [][PeriodNext]_vars

\* the frames of a capture URB: each packet counts floor(actual_length / 18)
FloorSum(actual) ==
    SumSeq([i \in 1..SL3_ISO_PACKETS |-> actual[i] \div SL3_BYTES_PER_FRAME])

\* C34: a successful capture completion publishes the sum of
\* floor(actual_length / 18) over the 8 packets as feedback_samples, with or
\* without a capture substream; hwptr and transfer_done of capture advance by
\* that sum when a host ring is attached and stay as they are otherwise; a
\* playback fill reads the value the last capture completion published.
C34_FeedbackIsFloorSum ==
    [][/\ \A f \in CaptureTotals, slack \in {0, 17} :
            CaptureCompleteOK(1, ActualLengths(f, slack)) =>
                LET sum == FloorSum(ActualLengths(f, slack))
                IN  /\ feedback_samples' = sum
                    /\ IF HasRing(CAPTURE)
                       THEN /\ hwptr'[CAPTURE] = (hwptr[CAPTURE] + sum) % UIntWrap
                            /\ transfer_done'[CAPTURE] =
                                (transfer_done[CAPTURE] + sum) % period_size[CAPTURE]
                       ELSE /\ hwptr'[CAPTURE] = hwptr[CAPTURE]
                            /\ transfer_done'[CAPTURE] = transfer_done[CAPTURE]
       /\ PlaybackCompleteOK(1) =>
            /\ obs'.feedback = feedback_samples
            /\ feedback_samples' = feedback_samples
      ]_vars
\* a capture URB of 50 frames completed without a capture substream and
\* published its frames, and a playback fill then read them
C34_Witness ==
    /\ ~substream[CAPTURE] /\ hwptr[CAPTURE] = 0
    /\ obs.op = "playback_complete" /\ obs.feedback = 50
    /\ obs.done[CAPTURE] > 0 /\ feedback_samples = 50

\* The lock and notification calls of a successful completion of stream s,
\* in program order, from the locked region to the resubmit label.
ProcessCalls(s, do_elapsed) ==
    (IF s = PLAYBACK
     THEN <<"spin_lock_irqsave stream", "spin_lock feedback", "spin_unlock feedback",
            "spin_unlock_irqrestore stream">>
     ELSE <<"spin_lock_irqsave stream", "spin_unlock_irqrestore stream",
            "spin_lock_irqsave feedback", "spin_unlock_irqrestore feedback">>)
    \o (IF do_elapsed THEN <<"snd_pcm_period_elapsed">> ELSE <<>>)

\* the stream spinlock is held when call k of the sequence is made
StreamLockHeldAt(calls, k) ==
    Cardinality({j \in 1..(k - 1) : calls[j] = "spin_lock_irqsave stream"})
        > Cardinality({j \in 1..(k - 1) : calls[j] = "spin_unlock_irqrestore stream"})

\* C35: a completion signals period-elapsed at most once, with the stream
\* spinlock released, and leaves transfer_done < period_size when a
\* substream with period_size >= 1 is attached.
C35_OneEventAfterUnlock ==
    [][\A s \in Streams :
        obs'.done[s] = obs.done[s] + 1 =>
            LET n == obs'.signals[s] - obs.signals[s]
                calls == ProcessCalls(s, n > 0)
                events == {k \in DOMAIN calls : calls[k] = "snd_pcm_period_elapsed"}
            IN  /\ n \in {0, 1}
                /\ Cardinality(events) = n
                /\ \A k \in events : ~StreamLockHeldAt(calls, k)
                /\ (substream[s] /\ period_size[s] >= 1)
                        => transfer_done'[s] < period_size[s]
      ]_vars
\* a capture URB of 56 frames completed on a period of 6 frames: nine
\* periods went by, one event was signalled and 2 frames are left over
C35_Witness ==
    /\ period_size[CAPTURE] = 6 /\ substream[CAPTURE]
    /\ obs.op = "capture_complete" /\ obs.done[CAPTURE] = 1
    /\ obs.total[CAPTURE] = 56 /\ obs.signals[CAPTURE] = 1
    /\ transfer_done[CAPTURE] = 2

(***************************************************************************)
(* SpecTerm: the substreams are used while URBs complete, and a completion *)
(* whose substream is open with period_size still 0 is in its period loop. *)
(* The completion handlers are run to their end (weak fairness); a user    *)
(* of a substream may stop calling at any point.                           *)
(***************************************************************************)
\* sl3_capture_complete on a substream that sl3_pcm_open attached and that
\* has no hw_params yet: runtime is set, dma_area is NULL and period_size is
\* 0, so every packet is skipped and `while (transfer_done >= 0)` subtracts 0
\* and tests again, under stream->lock.  An iteration changes nothing.
CapturePeriodSpin(i) ==
    /\ urb[CAPTURE][i] = "callback"
    /\ substream[CAPTURE] /\ period_size[CAPTURE] = 0
    /\ obs' = [obs EXCEPT !.op = "period_loop", !.stream = CAPTURE]
    /\ UNCHANGED <<cfgVars, strVars, pcmVars, bufVars, hidVars, ctxVars>>
    /\ UNCHANGED <<ctlVars, errVars, usbVars>>

TermNext == PcmNext \/ \E i \in 1..NumUrbs : CapturePeriodSpin(i)

\* a handler is past its running check and its period loop has an exit
BodyReady ==
    \E s \in Streams, i \in 1..NumUrbs :
        urb[s][i] = "callback" /\ (substream[s] => period_size[s] > 0)

\* the steps of a call that has entered the driver, up to its return:
\* sl3_set_sample_rate under hw_params, sl3_urb_stop under close
EnteredSteps ==
    \E t \in StreamThreads :
        \/ RateLock(t) \/ RateCheck(t) \/ RateHid(t) \/ RateSleepDone(t) \/ RateRet(t)
        \/ UrbStopKill(t)
        \/ t \in Streams /\ PcmCloseFinish(t)

SpecTerm ==
    /\ StreamInit /\ [][TermNext]_vars
    /\ WF_vars(EnteredSteps)
    /\ WF_vars(\E i \in 1..NumUrbs : CapturePeriodSpin(i))
    /\ \/ []<>(~BodyReady)
       \/ []<><<\E s \in Streams, i \in 1..NumUrbs : UrbCompleteBody(s, i)>>_vars

\* C30, the stops: every call that entered the driver returns, a close with
\* its sl3_urb_stop included, whatever completion handlers run at the same
\* time.
C30_StopsComplete ==
    <>[](\A t \in StreamThreads : pc[t] = "idle")

\* C36: every completion callback that was called returns: time and again
\* no handler is between its running check and its return.
C36_CompletionsTerminate ==
    []<>(\A s \in Streams, i \in 1..NumUrbs : urb[s][i] # "callback")

(***************************************************************************)
(* SpecPointer: both streams run on rings of PointerRings frames, the      *)
(* hwptr counters stand at a count of frames advanced since prepare that   *)
(* is 0 or close to the width of unsigned int, URBs complete and the host  *)
(* asks for the position.                                                  *)
(***************************************************************************)
PointerRings == {8, 12}
PointerStarts == {0, UIntWrap - 20}

PointerInit ==
    /\ current_rate \in Rates
    /\ sample_accumulator = 0
    /\ feedback_samples = 0
    /\ disconnected = FALSE
    /\ running = [s \in Streams |-> TRUE]
    /\ substream = [s \in Streams |-> TRUE]
    /\ urb = [s \in Streams |-> <<"inflight">>]
    /\ \E b \in PointerRings, h \in PointerStarts :
        /\ period_size = [s \in Streams |-> b \div 2]
        /\ buffer_size = [s \in Streams |-> b]
        /\ dma_area = [s \in Streams |-> RingPattern(BufferBytes(b))]
        /\ hwptr = [s \in Streams |-> h]
        /\ transfer_done = [s \in Streams |-> h % (b \div 2)]
        /\ obs = [ObsNone EXCEPT !.total = [s \in Streams |-> h]]
    /\ pcm_state = [s \in Streams |-> "running"]
    /\ urb_buffer = [s \in Streams |-> UrbPattern]
    /\ iso_length = [i \in 1..SL3_ISO_PACKETS |-> SL3_SAMPLES_48K * SL3_BYTES_PER_FRAME]
    /\ HidQuiet /\ CtxQuiet /\ CtlQuiet /\ ErrQuiet /\ UsbBound

\* sl3_pcm_pointer
PcmPointer(s) ==
    /\ substream[s] /\ buffer_size[s] > 0
    /\ obs' = [obs EXCEPT !.op = "pointer", !.stream = s,
                          !.ret = IF disconnected THEN "SNDRV_PCM_POS_XRUN"
                                  ELSE hwptr[s] % buffer_size[s]]
    /\ UNCHANGED <<cfgVars, strVars, pcmVars, bufVars, hidVars, ctxVars>>
    /\ UNCHANGED <<ctlVars, errVars, usbVars>>

\* a URB of either stream completes; a capture URB brings 7 or 50 frames
PointerComplete(s) ==
    /\ obs.done[s] < MaxCompletions
    /\ IF s = PLAYBACK THEN PlaybackCompleteOK(1)
       ELSE \E f \in {7, 50} : CaptureCompleteOK(1, ActualLengths(f, 0))

PointerNext == \E s \in Streams : PointerComplete(s) \/ PcmPointer(s)
SpecPointer == PointerInit /\ [][PointerNext]_vars

\* C37: the position sl3_pcm_pointer returns is the number of frames the
\* stream advanced since prepare, modulo buffer_size, also once hwptr has
\* wrapped around the width of unsigned int.
C37_PointerIsTotalMod ==
    (obs.op = "pointer" /\ ~disconnected)
        => obs.ret = obs.total[obs.stream] % buffer_size[obs.stream]

(***************************************************************************)
(* SpecSmall: the packet loop of a completion on a ring of any size the    *)
(* hardware constraints admit from 2 frames (periods_min periods of        *)
(* period_bytes_min bytes) up, packets larger than the ring included.  The *)
(* ring is followed in memory by bytes that are not its own; what a copy   *)
(* past the ring's end reads there is any value.                           *)
(***************************************************************************)
SmallPacketFrames == {0, 1, 6, 7}
RingMemory(ring, v) == ring \o Bytes(SL3_MAX_PACKET_SIZE, v)

SmallInit ==
    /\ CfgQuiet /\ HidQuiet /\ CtxQuiet /\ ObsQuiet /\ CtlQuiet /\ ErrQuiet /\ UsbBound
    /\ \E s \in Streams, b \in 2..MaxBufFrames : \E h \in {0, b - 1} :
        /\ running = [t \in Streams |-> t = s]
        /\ substream = [t \in Streams |-> t = s]
        /\ hwptr = [t \in Streams |-> IF t = s THEN h ELSE 0]
        /\ transfer_done = [t \in Streams |-> 0]
        /\ urb = [t \in Streams |-> <<>>]
        /\ period_size = [t \in Streams |-> IF t = s THEN b \div 2 ELSE 0]
        /\ buffer_size = [t \in Streams |-> IF t = s THEN b ELSE 0]
        /\ pcm_state = [t \in Streams |-> IF t = s THEN "running" ELSE "closed"]
        /\ dma_area = [t \in Streams |-> IF t = s THEN RingPattern(BufferBytes(b)) ELSE <<>>]
        /\ urb_buffer = [t \in Streams |-> IF t = s THEN UrbPattern ELSE <<>>]
        /\ iso_length = [i \in 1..SL3_ISO_PACKETS |-> 0]

\* sl3_fill_playback_urb, one packet of `samples` frames
SmallPlaybackCopy ==
    /\ running[PLAYBACK] /\ HasRing(PLAYBACK)
    /\ obs.calls < MaxCopies
    /\ \E samples \in SmallPacketFrames, v \in {0, 255} :
        LET bytes == samples * SL3_BYTES_PER_FRAME
            i == obs.calls + 1
            offset == SumSeq(SubSeq(iso_length, 1, i - 1))
        IN  /\ urb_buffer' = [urb_buffer EXCEPT ![PLAYBACK] = Memcpy(@, offset,
                    RingRead(RingMemory(dma_area[PLAYBACK], v), buffer_size[PLAYBACK],
                             hwptr[PLAYBACK], bytes),
                    bytes)]
            /\ iso_length' = [iso_length EXCEPT ![i] = bytes]
            /\ hwptr' = [hwptr EXCEPT ![PLAYBACK] = (@ + samples) % UIntWrap]
            /\ transfer_done' = [transfer_done EXCEPT ![PLAYBACK] = (@ + samples) % UIntWrap]
            /\ obs' = [obs EXCEPT !.op = "copy_out", !.calls = @ + 1,
                                  !.stream = PLAYBACK, !.hwptr = hwptr[PLAYBACK],
                                  !.bytes = bytes, !.offset = offset,
                                  !.ring = dma_area[PLAYBACK]]
    /\ UNCHANGED <<dma_area, running, substream, urb>>
    /\ UNCHANGED <<cfgVars, pcmVars, hidVars, ctxVars>>
    /\ UNCHANGED <<ctlVars, errVars, usbVars>>

\* sl3_capture_complete, one packet of `samples` whole frames; the bytes a
\* copy writes past the ring's end land in the memory that follows it
SmallCaptureCopy ==
    /\ running[CAPTURE] /\ HasRing(CAPTURE)
    /\ obs.calls < MaxCopies
    /\ \E samples \in SmallPacketFrames :
        LET bytes == samples * SL3_BYTES_PER_FRAME
            i == obs.calls + 1
            pkt_off == (i - 1) * SL3_MAX_PACKET_SIZE
            buf_bytes == BufferBytes(buffer_size[CAPTURE])
        IN  /\ IF bytes = 0
               THEN UNCHANGED <<dma_area, hwptr, transfer_done>>
               ELSE /\ dma_area' = [dma_area EXCEPT ![CAPTURE] =
                            SubSeq(RingWrite(RingMemory(@, 0), buffer_size[CAPTURE],
                                             hwptr[CAPTURE],
                                             Slice(urb_buffer[CAPTURE], pkt_off, bytes),
                                             bytes),
                                   1, buf_bytes)]
                    /\ hwptr' = [hwptr EXCEPT ![CAPTURE] = (@ + samples) % UIntWrap]
                    /\ transfer_done' = [transfer_done EXCEPT ![CAPTURE] = (@ + samples) % UIntWrap]
            /\ obs' = [obs EXCEPT !.op = "copy_in", !.calls = @ + 1,
                                  !.stream = CAPTURE, !.hwptr = hwptr[CAPTURE],
                                  !.bytes = bytes, !.offset = pkt_off,
                                  !.ring = dma_area[CAPTURE]]
    /\ UNCHANGED <<urb_buffer, iso_length, running, substream, urb>>
    /\ UNCHANGED <<cfgVars, pcmVars, hidVars, ctxVars>>
    /\ UNCHANGED <<ctlVars, errVars, usbVars>>

SmallNext == SmallPlaybackCopy \/ SmallCaptureCopy
SpecSmall == SmallInit /\ [][SmallNext]_vars

\* The byte offsets from dma_area that the memcpy calls of one packet copy
\* touch: one run when the packet ends before the ring does, else the run to
\* the ring's end and bytes - c1 bytes from offset 0.
RingTouched(buf_size, hw, bytes) ==
    LET hwptr_bytes == (hw % buf_size) * SL3_BYTES_PER_FRAME
        buf_bytes == BufferBytes(buf_size)
        c1 == buf_bytes - hwptr_bytes
    IN  IF hwptr_bytes + bytes <= buf_bytes
        THEN hwptr_bytes..(hwptr_bytes + bytes - 1)
        ELSE (hwptr_bytes..(hwptr_bytes + c1 - 1)) \cup (0..(bytes - c1 - 1))

\* C38: on every ring the hardware constraints admit, a packet's copy
\* touches only offsets [0, buffer_bytes) of the ring and only offsets
\* [0, 1008) of the URB transfer buffer.
C38_CopiesInBounds ==
    obs.op \in {"copy_out", "copy_in"} =>
        /\ RingTouched(buffer_size[obs.stream], obs.hwptr, obs.bytes)
                \subseteq 0..(BufferBytes(buffer_size[obs.stream]) - 1)
        /\ obs.offset + obs.bytes <= SL3_URB_BUFFER_SIZE

\* C39: whenever no start or stop call is in progress, a capture stream that
\* runs without a user capture substream has playback running, also after a
\* playback start that failed in its submit loop.
C39_ImplicitCaptureNeedsPlayback ==
    (\A t \in Streams : pc[t] = "idle") =>
        ((running[CAPTURE] /\ ~substream[CAPTURE]) => running[PLAYBACK])

\* C40: a start gives every URB a fresh error budget: every URB in flight
\* has a retry counter of at most SL3_URB_MAX_RETRIES - 1, so that the retry
\* policy gives a URB up only at its third error since the start or since
\* its last success.
C40_FreshRetryBudget ==
    \A s \in Streams, i \in 1..NumUrbs :
        urb[s][i] = "inflight" => error_retries[s][i] <= SL3_URB_MAX_RETRIES - 1

\* C19: from the moment a playback start has returned success until
\* playback is stopped, capture is running, whatever the user of the capture
\* substream does in between.
C19_PlaybackHasFeedback ==
    (pcm_state[PLAYBACK] = "running" /\ running[PLAYBACK]) => running[CAPTURE]

=============================================================================
